---------------------------- MODULE Spec2Model ----------------------------
(***************************************************************************)
(* Model of the avx2 kernel set of xsimd (arch/xsimd_avx2.hpp), of the     *)
(* compile-time constant batches (types/xsimd_batch_constant.hpp) and of   *)
(* the batch operators they are reached through (types/xsimd_batch.hpp).   *)
(*                                                                         *)
(* A 256-bit register is a function from byte index 0..31 to a byte        *)
(* 0..255, least significant byte of lane 0 first; a lane of a batch<T> is *)
(* sizeof(T) consecutive bytes, little endian.  Every intrinsic is an      *)
(* operator on such registers, computed byte by byte with carries, so that *)
(* all arithmetic keeps the width of its lanes.                            *)
(***************************************************************************)
EXTENDS Integers, Naturals, Sequences, FiniteSets, TLC

(***************************************************************************)
(* Bounds of the model.                                                    *)
(***************************************************************************)
\* seeds 0..MaxSeed rotate the table of lane values into an input batch
MaxSeed == 2
\* gather scales 0..MaxScale are instantiated
MaxScale == 17
\* boolean lane patterns 0..MaxPattern are used as select conditions
MaxPattern == 5

\* bytes of a 256-bit register
RegBytes == 32
\* bits of a C++ int (the type of batch_bool_constant::mask())
IntBits == 32

(***************************************************************************)
(* Bytes and little-endian words (functions 0..n-1 -> 0..255).             *)
(***************************************************************************)
Pow2(k) == 2 ^ k

BitAt(b, k) == (b \div Pow2(k)) % 2

RECURSIVE ByteOp(_, _, _, _)
\* bitwise operation on two bytes; op is "and", "or", "xor" or "andnot" (~a & b)
ByteOp(op, a, b, k) ==
    IF k = 8 THEN 0
    ELSE LET x == BitAt(a, k)
             y == BitAt(b, k)
             r == CASE op = "and" -> x * y
                    [] op = "or" -> IF x + y > 0 THEN 1 ELSE 0
                    [] op = "xor" -> (x + y) % 2
                    [] OTHER -> (1 - x) * y
         IN r * Pow2(k) + ByteOp(op, a, b, k + 1)

WZero(n) == [k \in 0 .. n - 1 |-> 0]
WOnes(n) == [k \in 0 .. n - 1 |-> 255]
\* the n-byte word of a small natural number v < 2^24
WNat(v, n) == [k \in 0 .. n - 1 |-> IF k < 3 THEN (v \div Pow2(8 * k)) % 256 ELSE 0]

RECURSIVE WCarry(_, _, _)
\* carry into byte k of a + b
WCarry(a, b, k) ==
    IF k = 0 THEN 0 ELSE (a[k - 1] + b[k - 1] + WCarry(a, b, k - 1)) \div 256

\* a + b modulo 2^(8n)
WAdd(a, b, n) == [k \in 0 .. n - 1 |-> (a[k] + b[k] + WCarry(a, b, k)) % 256]

WNot(a, n) == [k \in 0 .. n - 1 |-> 255 - a[k]]
\* two's complement negation
WNeg(a, n) == WAdd(WNot(a, n), WNat(1, n), n)
\* a - b modulo 2^(8n)
WSub(a, b, n) == WAdd(a, WNeg(b, n), n)

RECURSIVE WColSum(_, _, _, _)
\* sum of the byte products a[i] * b[k - i], i = 0..j
WColSum(a, b, k, j) ==
    IF j < 0 THEN 0 ELSE a[j] * b[k - j] + WColSum(a, b, k, j - 1)

RECURSIVE WMulCol(_, _, _)
\* column k of the schoolbook product, carries of the lower columns included
WMulCol(a, b, k) ==
    WColSum(a, b, k, k) + (IF k = 0 THEN 0 ELSE WMulCol(a, b, k - 1) \div 256)

\* low n bytes of a * b
WMulLo(a, b, n) == [k \in 0 .. n - 1 |-> WMulCol(a, b, k) % 256]

\* zero extension / truncation of a word of m bytes to n bytes
WResize(a, m, n) == [k \in 0 .. n - 1 |-> IF k < m THEN a[k] ELSE 0]
\* sign extension of a word of m bytes to n >= m bytes
WSignExt(a, m, n) ==
    [k \in 0 .. n - 1 |-> IF k < m THEN a[k] ELSE IF a[m - 1] >= 128 THEN 255 ELSE 0]

WIsNeg(a, n) == a[n - 1] >= 128

RECURSIVE WLessFrom(_, _, _)
\* unsigned a < b, comparing bytes k, k-1, ..., 0
WLessFrom(a, b, k) ==
    IF k < 0 THEN FALSE
    ELSE IF a[k] # b[k] THEN a[k] < b[k]
    ELSE WLessFrom(a, b, k - 1)

WULess(a, b, n) == WLessFrom(a, b, n - 1)
WSLess(a, b, n) ==
    IF WIsNeg(a, n) # WIsNeg(b, n) THEN WIsNeg(a, n) ELSE WULess(a, b, n)

\* bit j of a word
WBit(a, j) == BitAt(a[j \div 8], j % 8)

RECURSIVE BitsToByte(_, _, _)
\* the byte whose bit i is f[base + i]
BitsToByte(f, base, i) ==
    IF i = 8 THEN 0 ELSE f[base + i] * Pow2(i) + BitsToByte(f, base, i + 1)

\* the word of n bytes whose bit j is f[j]
WFromBits(f, n) == [k \in 0 .. n - 1 |-> BitsToByte(f, 8 * k, 0)]

\* logical shifts of an n-byte word by c bits (zero when c >= 8n)
WShl(a, c, n) ==
    WFromBits([j \in 0 .. 8 * n - 1 |-> IF j - c >= 0 THEN WBit(a, j - c) ELSE 0], n)
WShr(a, c, n) ==
    WFromBits([j \in 0 .. 8 * n - 1 |-> IF j + c < 8 * n THEN WBit(a, j + c) ELSE 0], n)
\* arithmetic right shift: the sign bit fills; a count >= 8n gives all sign bits
WSar(a, c, n) ==
    WFromBits([j \in 0 .. 8 * n - 1 |->
                  IF j + c < 8 * n THEN WBit(a, j + c) ELSE WBit(a, 8 * n - 1)], n)

(***************************************************************************)
(* Registers and lanes.  nb is the size of the register in bytes (32 for   *)
(* __m256i, 16 for __m128i), e the width of a lane in bits.                *)
(***************************************************************************)
Lane(x, w, i) == [k \in 0 .. w - 1 |-> x[i * w + k]]
FromLanes(L, w, nb) == [k \in 0 .. nb - 1 |-> L[k \div w][k % w]]
NLanes(w) == RegBytes \div w

\* Op applied to every pair of lanes of w bytes
Map2(Op(_, _, _), x, y, w, nb) ==
    LET L == [i \in 0 .. (nb \div w) - 1 |-> Op(Lane(x, w, i), Lane(y, w, i), w)]
    IN FromLanes(L, w, nb)

\* the value of a word of at most 2 bytes, unsigned and signed
WVal(a, n) == IF n = 1 THEN a[0] ELSE a[0] + 256 * a[1]
WSVal(a, n) == IF WIsNeg(a, n) THEN WVal(a, n) - Pow2(8 * n) ELSE WVal(a, n)
\* the n-byte two's complement word (n <= 2) of v, -2^(8n) <= v < 2^(8n)
WOfInt(v, n) == WNat((v + Pow2(8 * n)) % Pow2(8 * n), n)
Clamp(v, lo, hi) == IF v < lo THEN lo ELSE IF v > hi THEN hi ELSE v

WMax(a, b, n) == IF WULess(a, b, n) THEN b ELSE a
WMin(a, b, n) == IF WULess(b, a, n) THEN b ELSE a
WSMax(a, b, n) == IF WSLess(a, b, n) THEN b ELSE a
WSMin(a, b, n) == IF WSLess(b, a, n) THEN b ELSE a
WCmpEq(a, b, n) == IF a = b THEN WOnes(n) ELSE WZero(n)
WCmpGt(a, b, n) == IF WSLess(b, a, n) THEN WOnes(n) ELSE WZero(n)
WAbs(a, b, n) == IF WIsNeg(a, n) THEN WNeg(a, n) ELSE a
WAddsS(a, b, n) ==
    WOfInt(Clamp(WSVal(a, n) + WSVal(b, n), -Pow2(8 * n - 1), Pow2(8 * n - 1) - 1), n)
WAddsU(a, b, n) == WOfInt(Clamp(WVal(a, n) + WVal(b, n), 0, Pow2(8 * n) - 1), n)
WSubsS(a, b, n) ==
    WOfInt(Clamp(WSVal(a, n) - WSVal(b, n), -Pow2(8 * n - 1), Pow2(8 * n - 1) - 1), n)
WSubsU(a, b, n) == WOfInt(Clamp(WVal(a, n) - WVal(b, n), 0, Pow2(8 * n) - 1), n)

\* a per-lane shift count, saturated to the lane width in bits
WCount(c, n) ==
    IF \E k \in 1 .. n - 1 : c[k] # 0 THEN 8 * n
    ELSE IF c[0] > 8 * n THEN 8 * n ELSE c[0]
WSllv(a, c, n) == WShl(a, WCount(c, n), n)
WSrlv(a, c, n) == WShr(a, WCount(c, n), n)
WSrav(a, c, n) == WSar(a, WCount(c, n), n)

(***************************************************************************)
(* The intrinsics the kernels use.  mm256_add_epi(8, a, b) is              *)
(* _mm256_add_epi8(a, b), mm256_add_epi(16, a, b) is _mm256_add_epi16, and *)
(* so on: the first argument is the lane width of the instruction.         *)
(***************************************************************************)
mm256_setzero_si256 == WZero(RegBytes)
mm256_set1_epi32(v) == FromLanes([i \in 0 .. 7 |-> IF v = -1 THEN WOnes(4) ELSE WNat(v, 4)], 4, RegBytes)
mm256_set1_epi16(v) == FromLanes([i \in 0 .. 15 |-> WNat(v, 2)], 2, RegBytes)

mm256_add_epi(e, a, b) == Map2(WAdd, a, b, e \div 8, RegBytes)
mm256_sub_epi(e, a, b) == Map2(WSub, a, b, e \div 8, RegBytes)
mm256_mullo_epi(e, a, b) == Map2(WMulLo, a, b, e \div 8, RegBytes)
mm256_abs_epi(e, a) == Map2(WAbs, a, a, e \div 8, RegBytes)
mm256_adds_epi(e, a, b) == Map2(WAddsS, a, b, e \div 8, RegBytes)
mm256_adds_epu(e, a, b) == Map2(WAddsU, a, b, e \div 8, RegBytes)
mm256_subs_epi(e, a, b) == Map2(WSubsS, a, b, e \div 8, RegBytes)
mm256_subs_epu(e, a, b) == Map2(WSubsU, a, b, e \div 8, RegBytes)
mm256_max_epi(e, a, b) == Map2(WSMax, a, b, e \div 8, RegBytes)
mm256_max_epu(e, a, b) == Map2(WMax, a, b, e \div 8, RegBytes)
mm256_min_epi(e, a, b) == Map2(WSMin, a, b, e \div 8, RegBytes)
mm256_min_epu(e, a, b) == Map2(WMin, a, b, e \div 8, RegBytes)
mm256_cmpeq_epi(e, a, b) == Map2(WCmpEq, a, b, e \div 8, RegBytes)
mm256_cmpgt_epi(e, a, b) == Map2(WCmpGt, a, b, e \div 8, RegBytes)

mm256_and_si256(a, b) == [k \in 0 .. RegBytes - 1 |-> ByteOp("and", a[k], b[k], 0)]
mm256_andnot_si256(a, b) == [k \in 0 .. RegBytes - 1 |-> ByteOp("andnot", a[k], b[k], 0)]
mm256_or_si256(a, b) == [k \in 0 .. RegBytes - 1 |-> ByteOp("or", a[k], b[k], 0)]
mm256_xor_si256(a, b) == [k \in 0 .. RegBytes - 1 |-> ByteOp("xor", a[k], b[k], 0)]

\* shifts by an immediate or scalar count
mm256_slli_epi(e, a, c) ==
    FromLanes([i \in 0 .. NLanes(e \div 8) - 1 |-> WShl(Lane(a, e \div 8, i), c, e \div 8)], e \div 8, RegBytes)
mm256_srli_epi(e, a, c) ==
    FromLanes([i \in 0 .. NLanes(e \div 8) - 1 |-> WShr(Lane(a, e \div 8, i), c, e \div 8)], e \div 8, RegBytes)
mm256_srai_epi(e, a, c) ==
    FromLanes([i \in 0 .. NLanes(e \div 8) - 1 |-> WSar(Lane(a, e \div 8, i), c, e \div 8)], e \div 8, RegBytes)
\* shifts by a per-lane count
mm256_sllv_epi(e, a, c) == Map2(WSllv, a, c, e \div 8, RegBytes)
mm256_srlv_epi(e, a, c) == Map2(WSrlv, a, c, e \div 8, RegBytes)
mm256_srav_epi(e, a, c) == Map2(WSrav, a, c, e \div 8, RegBytes)

\* the two-bit field j of an 8-bit immediate
Imm2(imm, j) == (imm \div Pow2(2 * j)) % 4

\* _mm256_shuffle_epi32: in each 128-bit half, dword j comes from dword Imm2(imm, j)
mm256_shuffle_epi32(a, imm) ==
    FromLanes([d \in 0 .. 7 |-> Lane(a, 4, 4 * (d \div 4) + Imm2(imm, d % 4))], 4, RegBytes)

\* _mm256_hadd_epi32: in each 128-bit half, a0+a1, a2+a3, b0+b1, b2+b3
mm256_hadd_epi32(a, b) ==
    FromLanes([d \in 0 .. 7 |->
                  LET h == 4 * (d \div 4)
                      j == d % 4
                      s == IF j < 2 THEN a ELSE b
                  IN WAdd(Lane(s, 4, h + 2 * (j % 2)), Lane(s, 4, h + 2 * (j % 2) + 1), 4)],
              4, RegBytes)

\* _mm256_mul_epu32: the unsigned 64-bit product of the low dwords of each qword
mm256_mul_epu32(a, b) ==
    FromLanes([q \in 0 .. 3 |->
                  WMulLo(WResize(Lane(a, 4, 2 * q), 4, 8), WResize(Lane(b, 4, 2 * q), 4, 8), 8)],
              8, RegBytes)

\* a blend choosing each byte by the least significant bit of the mask byte
mm256_blendv_epi8_low_bit(a, b, mask) ==
    [k \in 0 .. RegBytes - 1 |-> IF mask[k] % 2 = 1 THEN b[k] ELSE a[k]]

\* _mm256_blendv_epi8: each byte from b when the top bit of the mask byte is set
mm256_blendv_epi8(a, b, mask) ==
    [k \in 0 .. RegBytes - 1 |-> IF mask[k] >= 128 THEN b[k] ELSE a[k]]

\* _mm256_blend_epi32: dword j from b when bit j of the immediate (an int, as a
\* function from bit index to 0/1) is set; only its low 8 bits are read
mm256_blend_epi32(a, b, imm) ==
    [k \in 0 .. RegBytes - 1 |-> IF imm[k \div 4] = 1 THEN b[k] ELSE a[k]]

mm256_extracti128_si256(a, half) == [k \in 0 .. 15 |-> a[16 * half + k]]
mm256_castsi256_si128(a) == [k \in 0 .. 15 |-> a[k]]
mm_add_epi(e, a, b) == Map2(WAdd, a, b, e \div 8, 16)
mm_cvtsi128_si32(a) == Lane(a, 4, 0)
mm_cvtsi128_si64(a) == Lane(a, 8, 0)

(***************************************************************************)
(* What a kernel does: either it returns a value it computed (fwd = <<>>), *)
(* or it returns the result of another kernel, fwd = <<tier, kernel>>,     *)
(* called with the condition register arg.  uses lists the kernels of      *)
(* other tiers called on the way of a computed value.                      *)
(***************************************************************************)
Native(v) == [val |-> v, fwd |-> <<>>, uses |-> {}, arg |-> <<>>]
NativeUsing(v, u) == [val |-> v, fwd |-> <<>>, uses |-> u, arg |-> <<>>]
Forward(t, k) == [val |-> <<>>, fwd |-> <<t, k>>, uses |-> {}, arg |-> <<>>]
ForwardArg(t, k, c) == [val |-> <<>>, fwd |-> <<t, k>>, uses |-> {}, arg |-> c]

(***************************************************************************)
(* The avx2 kernels for integral T.  T is [size |-> sizeof(T), signed |->  *)
(* std::is_signed<T>::value].                                              *)
(***************************************************************************)
abs(T, self) ==
    IF T.signed
    THEN CASE T.size = 1 -> Native(mm256_abs_epi(8, self))
           [] T.size = 2 -> Native(mm256_abs_epi(16, self))
           [] T.size = 4 -> Native(mm256_abs_epi(32, self))
           [] OTHER -> Forward("avx", "abs")
    ELSE Native(self)

add(T, self, other) ==
    CASE T.size = 1 -> Native(mm256_add_epi(8, self, other))
      [] T.size = 2 -> Native(mm256_add_epi(16, self, other))
      [] T.size = 4 -> Native(mm256_add_epi(32, self, other))
      [] T.size = 8 -> Native(mm256_add_epi(64, self, other))
      [] OTHER -> Forward("avx", "add")

bitwise_and(T, self, other) == Native(mm256_and_si256(self, other))

bitwise_andnot(T, self, other) == Native(mm256_andnot_si256(self, other))

\* bitwise_not flipping only the lowest bit of every 32-bit group
bitwise_not_low_bit(T, self) == Native(mm256_xor_si256(self, mm256_set1_epi32(1)))

bitwise_not(T, self) == Native(mm256_xor_si256(self, mm256_set1_epi32(-1)))

bitwise_lshift(T, self, other) ==
    CASE T.size = 2 -> Native(mm256_slli_epi(16, self, other))
      [] T.size = 4 -> Native(mm256_slli_epi(32, self, other))
      [] T.size = 8 -> Native(mm256_slli_epi(64, self, other))
      [] OTHER -> Forward("avx", "bitwise_lshift")

bitwise_lshift_batch(T, self, other) ==
    CASE T.size = 4 -> Native(mm256_sllv_epi(32, self, other))
      [] T.size = 8 -> Native(mm256_sllv_epi(64, self, other))
      [] OTHER -> Forward("avx", "bitwise_lshift_batch")

bitwise_or(T, self, other) == Native(mm256_or_si256(self, other))

\* detail::fwd_to_sse applied to the sse4_2 bitwise_and: the kernel of the 128-bit
\* tier on each half of the two registers, the halves put back together
fwd_to_sse_bitwise_and(a, b) ==
    [k \in 0 .. RegBytes - 1 |-> ByteOp("and", a[k], b[k], 0)]

\* bitwise_rshift shifting unsigned 2-byte lanes arithmetically
bitwise_rshift_srai_u16(T, self, other) ==
    CASE T.size = 2 -> Native(mm256_srai_epi(16, self, other))
      [] T.size = 4 /\ T.signed -> Native(mm256_srai_epi(32, self, other))
      [] T.size = 4 /\ ~T.signed -> Native(mm256_srli_epi(32, self, other))
      [] OTHER -> Forward("avx", "bitwise_rshift")

\* bitwise_rshift shifting signed 4-byte lanes logically
bitwise_rshift_srli_i32(T, self, other) ==
    CASE T.size = 2 /\ T.signed -> Native(mm256_srai_epi(16, self, other))
      [] T.size = 2 /\ ~T.signed -> Native(mm256_srli_epi(16, self, other))
      [] T.size = 4 -> Native(mm256_srli_epi(32, self, other))
      [] OTHER -> Forward("avx", "bitwise_rshift")

\* bitwise_rshift returning the 16-bit shift of signed 1-byte lanes as it is
bitwise_rshift_no_sign_mask(T, self, other) ==
    IF T.signed
    THEN CASE T.size = 1 -> Native(mm256_srai_epi(16, self, other))
           [] T.size = 2 -> Native(mm256_srai_epi(16, self, other))
           [] T.size = 4 -> Native(mm256_srai_epi(32, self, other))
           [] OTHER -> Forward("avx", "bitwise_rshift")
    ELSE CASE T.size = 2 -> Native(mm256_srli_epi(16, self, other))
           [] T.size = 4 -> Native(mm256_srli_epi(32, self, other))
           [] T.size = 8 -> Native(mm256_srli_epi(64, self, other))
           [] OTHER -> Forward("avx", "bitwise_rshift")

bitwise_rshift(T, self, other) ==
    IF T.signed
    THEN CASE T.size = 1 ->
                LET sign_mask == mm256_set1_epi16((65280 \div Pow2(other)) % 256)
                    cmp_is_negative == mm256_cmpgt_epi(8, mm256_setzero_si256, self)
                    res_ == mm256_srai_epi(16, self, other)
                IN NativeUsing(mm256_or_si256(fwd_to_sse_bitwise_and(sign_mask, cmp_is_negative),
                                              mm256_andnot_si256(sign_mask, res_)),
                               {<<"sse4_2", "bitwise_and">>})
           [] T.size = 2 -> Native(mm256_srai_epi(16, self, other))
           [] T.size = 4 -> Native(mm256_srai_epi(32, self, other))
           [] OTHER -> Forward("avx", "bitwise_rshift")
    ELSE CASE T.size = 2 -> Native(mm256_srli_epi(16, self, other))
           [] T.size = 4 -> Native(mm256_srli_epi(32, self, other))
           [] T.size = 8 -> Native(mm256_srli_epi(64, self, other))
           [] OTHER -> Forward("avx", "bitwise_rshift")

bitwise_rshift_batch(T, self, other) ==
    IF T.signed
    THEN CASE T.size = 4 -> Native(mm256_srav_epi(32, self, other))
           [] OTHER -> Forward("avx", "bitwise_rshift_batch")
    ELSE CASE T.size = 4 -> Native(mm256_srlv_epi(32, self, other))
           [] T.size = 8 -> Native(mm256_srlv_epi(64, self, other))
           [] OTHER -> Forward("avx", "bitwise_rshift_batch")

bitwise_xor(T, self, other) == Native(mm256_xor_si256(self, other))

eq(T, self, other) ==
    CASE T.size = 1 -> Native(mm256_cmpeq_epi(8, self, other))
      [] T.size = 2 -> Native(mm256_cmpeq_epi(16, self, other))
      [] T.size = 4 -> Native(mm256_cmpeq_epi(32, self, other))
      [] T.size = 8 -> Native(mm256_cmpeq_epi(64, self, other))
      [] OTHER -> Forward("avx", "eq")

\* gt answering the unsigned comparison with the signed instruction
gt_signed_compare(T, self, other) ==
    Native(mm256_cmpgt_epi(8 * T.size, self, other))

\* gt handing the unsigned comparison to the tier below the parent
gt_skip_parent(T, self, other) ==
    IF T.signed THEN Native(mm256_cmpgt_epi(8 * T.size, self, other))
    ELSE Forward("sse4_2", "gt")

gt(T, self, other) ==
    IF T.signed
    THEN CASE T.size = 1 -> Native(mm256_cmpgt_epi(8, self, other))
           [] T.size = 2 -> Native(mm256_cmpgt_epi(16, self, other))
           [] T.size = 4 -> Native(mm256_cmpgt_epi(32, self, other))
           [] T.size = 8 -> Native(mm256_cmpgt_epi(64, self, other))
           [] OTHER -> Forward("avx", "gt")
    ELSE Forward("avx", "gt")

\* hadd adding the low half of the register to itself
hadd_low_twice(T, self) ==
    CASE T.size = 4 ->
            LET tmp1 == mm256_hadd_epi32(self, self)
                tmp2 == mm256_hadd_epi32(tmp1, tmp1)
                tmp3 == mm256_extracti128_si256(tmp2, 0)
            IN Native(mm_cvtsi128_si32(mm_add_epi(32, mm256_castsi256_si128(tmp2), tmp3)))
      [] T.size = 8 ->
            LET tmp2 == mm256_add_epi(64, self, mm256_shuffle_epi32(self, 14))
                tmp3 == mm256_extracti128_si256(tmp2, 0)
            IN Native(mm_cvtsi128_si64(mm_add_epi(64, mm256_castsi256_si128(tmp2), tmp3)))
      [] OTHER -> Forward("avx", "hadd")

hadd(T, self) ==
    CASE T.size = 4 ->
            LET tmp1 == mm256_hadd_epi32(self, self)
                tmp2 == mm256_hadd_epi32(tmp1, tmp1)
                tmp3 == mm256_extracti128_si256(tmp2, 1)
                tmp4 == mm_add_epi(32, mm256_castsi256_si128(tmp2), tmp3)
            IN Native(mm_cvtsi128_si32(tmp4))
      [] T.size = 8 ->
            LET tmp1 == mm256_shuffle_epi32(self, 14)
                tmp2 == mm256_add_epi(64, self, tmp1)
                tmp3 == mm256_extracti128_si256(tmp2, 1)
                res_ == mm_add_epi(64, mm256_castsi256_si128(tmp2), tmp3)
            IN Native(mm_cvtsi128_si64(res_))
      [] OTHER -> Forward("avx", "hadd")

max(T, self, other) ==
    IF T.signed
    THEN CASE T.size = 1 -> Native(mm256_max_epi(8, self, other))
           [] T.size = 2 -> Native(mm256_max_epi(16, self, other))
           [] T.size = 4 -> Native(mm256_max_epi(32, self, other))
           [] OTHER -> Forward("avx", "max")
    ELSE CASE T.size = 1 -> Native(mm256_max_epu(8, self, other))
           [] T.size = 2 -> Native(mm256_max_epu(16, self, other))
           [] T.size = 4 -> Native(mm256_max_epu(32, self, other))
           [] OTHER -> Forward("avx", "max")

min(T, self, other) ==
    IF T.signed
    THEN CASE T.size = 1 -> Native(mm256_min_epi(8, self, other))
           [] T.size = 2 -> Native(mm256_min_epi(16, self, other))
           [] T.size = 4 -> Native(mm256_min_epi(32, self, other))
           [] OTHER -> Forward("avx", "min")
    ELSE CASE T.size = 1 -> Native(mm256_min_epu(8, self, other))
           [] T.size = 2 -> Native(mm256_min_epu(16, self, other))
           [] T.size = 4 -> Native(mm256_min_epu(32, self, other))
           [] OTHER -> Forward("avx", "min")

\* mul of 8-byte lanes that leaves the cross products in the low halves
mul_cross_low(T, self, other) ==
    CASE T.size = 2 -> Native(mm256_mullo_epi(16, self, other))
      [] T.size = 4 -> Native(mm256_mullo_epi(32, self, other))
      [] T.size = 8 ->
            LET bswap == mm256_shuffle_epi32(other, 177)
                prodlh == mm256_mullo_epi(32, self, bswap)
                prodlh2 == mm256_hadd_epi32(prodlh, mm256_setzero_si256)
                prodlh3 == mm256_shuffle_epi32(prodlh2, 55)
            IN Native(mm256_add_epi(64, mm256_mul_epu32(self, other), prodlh3))
      [] OTHER -> Forward("avx", "mul")

mul(T, self, other) ==
    CASE T.size = 2 -> Native(mm256_mullo_epi(16, self, other))
      [] T.size = 4 -> Native(mm256_mullo_epi(32, self, other))
      [] T.size = 8 ->
            LET bswap == mm256_shuffle_epi32(other, 177)
                prodlh == mm256_mullo_epi(32, self, bswap)
                zero == mm256_setzero_si256
                prodlh2 == mm256_hadd_epi32(prodlh, zero)
                prodlh3 == mm256_shuffle_epi32(prodlh2, 115)
                prodll == mm256_mul_epu32(self, other)
            IN Native(mm256_add_epi(64, prodll, prodlh3))
      [] OTHER -> Forward("avx", "mul")

sadd(T, self, other) ==
    IF T.signed
    THEN CASE T.size = 1 -> Native(mm256_adds_epi(8, self, other))
           [] T.size = 2 -> Native(mm256_adds_epi(16, self, other))
           [] OTHER -> Forward("avx", "sadd")
    ELSE CASE T.size = 1 -> Native(mm256_adds_epu(8, self, other))
           [] T.size = 2 -> Native(mm256_adds_epu(16, self, other))
           [] OTHER -> Forward("avx", "sadd")

ssub(T, self, other) ==
    IF T.signed
    THEN CASE T.size = 1 -> Native(mm256_subs_epi(8, self, other))
           [] T.size = 2 -> Native(mm256_subs_epi(16, self, other))
           [] OTHER -> Forward("avx", "ssub")
    ELSE CASE T.size = 1 -> Native(mm256_subs_epu(8, self, other))
           [] T.size = 2 -> Native(mm256_subs_epu(16, self, other))
           [] OTHER -> Forward("avx", "ssub")

sub(T, self, other) ==
    CASE T.size = 1 -> Native(mm256_sub_epi(8, self, other))
      [] T.size = 2 -> Native(mm256_sub_epi(16, self, other))
      [] T.size = 4 -> Native(mm256_sub_epi(32, self, other))
      [] T.size = 8 -> Native(mm256_sub_epi(64, self, other))
      [] OTHER -> Forward("avx", "sub")

\* select with the branches exchanged
select_swapped(T, cond, true_br, false_br) ==
    Native(mm256_blendv_epi8(true_br, false_br, cond))

select(T, cond, true_br, false_br) ==
    CASE T.size = 1 -> Native(mm256_blendv_epi8(false_br, true_br, cond))
      [] T.size = 2 -> Native(mm256_blendv_epi8(false_br, true_br, cond))
      [] T.size = 4 -> Native(mm256_blendv_epi8(false_br, true_br, cond))
      [] T.size = 8 -> Native(mm256_blendv_epi8(false_br, true_br, cond))
      [] OTHER -> Forward("avx", "select")

(***************************************************************************)
(* batch_bool_constant.  A C++ int is a function from bit index            *)
(* 0..IntBits-1 to 0/1 (two's complement); Values is the parameter pack, a *)
(* sequence of booleans, Values[i + 1] being lane i.                       *)
(***************************************************************************)
IntOfBool(b) == [j \in 0 .. IntBits - 1 |-> IF j = 0 /\ b THEN 1 ELSE 0]
IntOr(a, b) == [j \in 0 .. IntBits - 1 |-> IF a[j] + b[j] > 0 THEN 1 ELSE 0]
\* x << 1 on an int: the bit shifted into the sign position stays in the result
IntShl1(a) == [j \in 0 .. IntBits - 1 |-> IF j = 0 THEN 0 ELSE a[j - 1]]

RECURSIVE mask_helper_reversed(_, _)
\* mask_helper putting the first value in the highest bit
mask_helper_reversed(acc, masks) ==
    IF masks = <<>> THEN acc
    ELSE mask_helper_reversed(IntOr(IntShl1(acc), Head(masks)), Tail(masks))

RECURSIVE mask_helper(_, _)
mask_helper(acc, masks) ==
    IF masks = <<>> THEN acc
    ELSE mask_helper(IntOr(acc, Head(masks)),
                     [i \in 1 .. Len(masks) - 1 |-> IntShl1(masks[i + 1])])

mask(Values) ==
    mask_helper(IntOfBool(FALSE), [i \in 1 .. Len(Values) |-> IntOfBool(Values[i])])

\* detail::interleave: bit i of the mask of 64-bit lanes becomes bits 2i and 2i+1
\* of the mask of 32-bit lanes
interleave(m) == [j \in 0 .. IntBits - 1 |-> m[j \div 2]]

\* kernel::set for a batch_bool: lane i is all ones when the i-th value is true
set_bool(T, vs) ==
    FromLanes([i \in 0 .. NLanes(T.size) - 1 |->
                  IF vs[i + 1] THEN WOnes(T.size) ELSE WZero(T.size)], T.size, RegBytes)

\* batch_bool(std::initializer_list<bool>): the first size elements of the list
batch_bool_init(T, data) == set_bool(T, [i \in 1 .. NLanes(T.size) |-> data[i]])

\* the constant-mask select calling itself for 1- and 2-byte lanes
select_constant_self(T, Values, true_br, false_br) ==
    IF T.size = 4 THEN Native(mm256_blend_epi32(false_br, true_br, mask(Values)))
    ELSE IF T.size = 8
    THEN Native(mm256_blend_epi32(false_br, true_br, interleave(mask(Values))))
    ELSE ForwardArg("avx2", "select_constant", batch_bool_init(T, Values))

select_constant(T, Values, true_br, false_br) ==
    LET mask_ == mask(Values)
    IN CASE T.size = 4 -> Native(mm256_blend_epi32(false_br, true_br, mask_))
         [] T.size = 8 ->
               LET imask == interleave(mask_)
               IN Native(mm256_blend_epi32(false_br, true_br, imask))
         [] OTHER -> ForwardArg("avx2", "select", batch_bool_init(T, Values))

(***************************************************************************)
(* gather.                                                                 *)
(***************************************************************************)
RECURSIVE select_scale(_, _)
select_scale(required_scale, scales) ==
    IF Len(scales) = 1 THEN Head(scales)
    ELSE IF required_scale % Head(scales) = 0 THEN Head(scales)
    ELSE select_scale(required_scale, Tail(scales))

prescaler_scale(required_scale, scales) == select_scale(required_scale, scales)
prescaler_prescale(required_scale, scales) ==
    required_scale \div prescaler_scale(required_scale, scales)
\* a prescaler without its static_assert
prescaler_assert_absent(required_scale, scales) == TRUE

\* the static_assert of prescaler: FALSE is a compilation failure
prescaler_assert(required_scale, scales) ==
    required_scale % prescaler_scale(required_scale, scales) = 0

\* batch(T val): every lane holds val (here a small non-negative number)
broadcast(T, val) ==
    FromLanes([i \in 0 .. NLanes(T.size) - 1 |-> WNat(val, T.size)], T.size, RegBytes)

\* operator*(batch, batch): batch(self) *= other, that is kernel::mul<A>
batch_mul(T, self, other) == mul(T, self, other).val

prescaler_run(T, required_scale, scales, offset) ==
    IF prescaler_prescale(required_scale, scales) = 1 THEN offset
    ELSE batch_mul(T, broadcast(T, prescaler_prescale(required_scale, scales)), offset)

\* the candidates without the final 1
GatherScalesWithoutOne == <<8, 4, 2>>

\* the candidates tried from the smallest to the largest
GatherScalesAscending == <<1, 2, 4, 8>>

\* the candidate scales of the gather call site
GatherScales == <<8, 4, 2, 1>>

\* gather<scale>: what detail::gather_impl is called with
gather(T, scale, offset) ==
    [offset |-> prescaler_run(T, scale, GatherScales, offset),
     scale |-> prescaler_scale(scale, GatherScales),
     compiles |-> prescaler_assert(scale, GatherScales)]

\* _mm256_i32gather_* / _mm256_i64gather_*: lane i is read at the byte displacement
\* sign_extend(offset[i]) * scale from mem, computed in 64 bits
mm256_gather_disp(T, offset, sc) ==
    [i \in 0 .. NLanes(T.size) - 1 |->
        WMulLo(WSignExt(Lane(offset, T.size, i), T.size, 8), WNat(sc, 8), 8)]

(***************************************************************************)
(* The parent tier, avx: its kernels give every lane the result of the     *)
(* scalar operation on T (two's complement wraparound, comparison by the   *)
(* signedness of T, arithmetic right shift for signed T).                  *)
(***************************************************************************)
WSatAddS(a, b, n) ==
    LET x == WAdd(WSignExt(a, n, n + 1), WSignExt(b, n, n + 1), n + 1)
        lo == WResize(x, n + 1, n)
    IN IF WSignExt(lo, n, n + 1) = x THEN lo
       ELSE IF WIsNeg(x, n + 1) THEN [k \in 0 .. n - 1 |-> IF k = n - 1 THEN 128 ELSE 0]
       ELSE [k \in 0 .. n - 1 |-> IF k = n - 1 THEN 127 ELSE 255]
WSatSubS(a, b, n) ==
    LET x == WSub(WSignExt(a, n, n + 1), WSignExt(b, n, n + 1), n + 1)
        lo == WResize(x, n + 1, n)
    IN IF WSignExt(lo, n, n + 1) = x THEN lo
       ELSE IF WIsNeg(x, n + 1) THEN [k \in 0 .. n - 1 |-> IF k = n - 1 THEN 128 ELSE 0]
       ELSE [k \in 0 .. n - 1 |-> IF k = n - 1 THEN 127 ELSE 255]
WSatAddU(a, b, n) ==
    LET x == WAdd(WResize(a, n, n + 1), WResize(b, n, n + 1), n + 1)
    IN IF x[n] # 0 THEN WOnes(n) ELSE WResize(x, n + 1, n)
WSatSubU(a, b, n) == IF WULess(a, b, n) THEN WZero(n) ELSE WSub(a, b, n)

RECURSIVE WSumLanes(_, _, _)
\* the sum of lanes 0..i of x modulo 2^(8w)
WSumLanes(x, w, i) ==
    IF i < 0 THEN WZero(w) ELSE WAdd(Lane(x, w, i), WSumLanes(x, w, i - 1), w)

avx_lane(k, T, a, b, n) ==
    LET w == T.size
    IN CASE k = "abs" -> IF T.signed THEN WAbs(a, a, w) ELSE a
         [] k = "add" -> WAdd(a, b, w)
         [] k = "sub" -> WSub(a, b, w)
         [] k = "mul" -> WMulLo(a, b, w)
         [] k = "eq" -> WCmpEq(a, b, w)
         [] k = "gt" -> IF T.signed THEN WCmpGt(a, b, w)
                        ELSE IF WULess(b, a, w) THEN WOnes(w) ELSE WZero(w)
         [] k = "max" -> IF T.signed THEN WSMax(a, b, w) ELSE WMax(a, b, w)
         [] k = "min" -> IF T.signed THEN WSMin(a, b, w) ELSE WMin(a, b, w)
         [] k = "sadd" -> IF T.signed THEN WSatAddS(a, b, w) ELSE WSatAddU(a, b, w)
         [] k = "ssub" -> IF T.signed THEN WSatSubS(a, b, w) ELSE WSatSubU(a, b, w)
         [] k = "bitwise_lshift" -> WShl(a, n, w)
         [] k = "bitwise_rshift" -> IF T.signed THEN WSar(a, n, w) ELSE WShr(a, n, w)
         [] k = "bitwise_lshift_batch" -> WSllv(a, b, w)
         [] k = "bitwise_rshift_batch" -> IF T.signed THEN WSrav(a, b, w) ELSE WSrlv(a, b, w)
         [] k = "bitwise_and" -> [j \in 0 .. w - 1 |-> ByteOp("and", a[j], b[j], 0)]
         [] k = "bitwise_or" -> [j \in 0 .. w - 1 |-> ByteOp("or", a[j], b[j], 0)]
         [] k = "bitwise_xor" -> [j \in 0 .. w - 1 |-> ByteOp("xor", a[j], b[j], 0)]
         [] k = "bitwise_andnot" -> [j \in 0 .. w - 1 |-> ByteOp("andnot", a[j], b[j], 0)]
         [] k = "bitwise_not" -> WNot(a, w)
         [] OTHER -> a

\* the kernel k of the parent tier on whole batches
avx(k, T, self, other, n, cond) ==
    LET w == T.size
    IN CASE k = "hadd" -> WSumLanes(self, w, NLanes(w) - 1)
         [] k = "select" ->
               FromLanes([i \in 0 .. NLanes(w) - 1 |->
                             IF Lane(cond, w, i) # WZero(w) THEN Lane(self, w, i)
                             ELSE Lane(other, w, i)], w, RegBytes)
         [] OTHER ->
               FromLanes([i \in 0 .. NLanes(w) - 1 |->
                             avx_lane(k, T, Lane(self, w, i), Lane(other, w, i), n)],
                         w, RegBytes)

(***************************************************************************)
(* The state: one call of a batch operation, resolved kernel by kernel.    *)
(***************************************************************************)
VARIABLES
    T,        \* the element type of the batch: [size, signed]
    self,     \* first operand (the true branch of a select, the offsets of a gather)
    other,    \* second operand (the false branch of a select, per-lane shift counts)
    n,        \* scalar shift count
    cond,     \* the batch_bool of a select
    values,   \* the parameter pack of a batch_bool_constant
    scale,    \* the compile-time scale of a gather
    pc,       \* "idle", "call" (a kernel is to run), "done", "rejected" (does not compile)
    tier,     \* the tier of the kernel to run
    kernel,   \* the kernel (overload) to run
    path,     \* the <<tier, kernel>> pairs run so far in this call
    uses,     \* kernels of other tiers called by the kernels run so far
    res,      \* the value returned
    maskv,    \* the immediate computed by the constant-mask select
    NDEBUG,   \* whether the build defines NDEBUG (assert expands to nothing)
    fn,       \* the operation of the batch types in progress, "none" when there is none
    arg,      \* its arguments
    out,      \* its outcome so far
    mem,      \* the objects of the threads: storage location |-> content
    tpc       \* thread |-> its position in its sequence of operations

libvars == <<NDEBUG, fn, arg, out>>
thvars == <<mem, tpc>>
vars == <<T, self, other, n, cond, values, scale, pc, tier, kernel, path, uses, res, maskv,
          libvars, thvars>>

Types == [size : {1, 2, 4, 8}, signed : BOOLEAN]

ZeroReg == WZero(RegBytes)

\* 0x0123456789ABCDEF, least significant byte first
MixedBytes == <<239, 205, 171, 137, 103, 69, 35, 1>>

\* the table of lane values the inputs are built from
LaneVal(j, w) ==
    CASE j = 0 -> WZero(w)
      [] j = 1 -> WNat(1, w)
      [] j = 2 -> WOnes(w)
      [] j = 3 -> [k \in 0 .. w - 1 |-> IF k = w - 1 THEN 128 ELSE 0]
      [] j = 4 -> [k \in 0 .. w - 1 |-> IF k = w - 1 THEN 127 ELSE 255]
      [] j = 5 -> [k \in 0 .. w - 1 |-> MixedBytes[k + 1]]
      [] j = 6 -> IF w = 1 THEN WNat(15, 1)
                  ELSE [k \in 0 .. w - 1 |-> IF 2 * k < w THEN 255 ELSE 0]
      [] OTHER -> [k \in 0 .. w - 1 |-> 129]

RotBatch(s, step, w) ==
    FromLanes([i \in 0 .. NLanes(w) - 1 |-> LaneVal((s + step * i) % 8, w)], w, RegBytes)
\* lane i holds i (modulo the lane width in bits), and its negation
Ramp(w) == FromLanes([i \in 0 .. NLanes(w) - 1 |-> WNat(i % (8 * w), w)], w, RegBytes)
NegRamp(w) ==
    FromLanes([i \in 0 .. NLanes(w) - 1 |-> WNeg(WNat(i % (8 * w), w), w)], w, RegBytes)

SelfInputs(w) == {RotBatch(s, 1, w) : s \in 0 .. MaxSeed} \cup {Ramp(w), NegRamp(w)}
OtherInputs(w) == {RotBatch(s, 3, w) : s \in 0 .. MaxSeed} \cup {Ramp(w)}

\* boolean lane patterns
BoolPattern(p, i, size) ==
    CASE p = 0 -> FALSE
      [] p = 1 -> TRUE
      [] p = 2 -> i % 2 = 0
      [] p = 3 -> i % 3 = 1
      [] p = 4 -> i = size - 1
      [] p = 5 -> 2 * i < size
      [] OTHER -> (i \div 2) % 2 = 1
PatternValues(p, w) == [i \in 1 .. NLanes(w) |-> BoolPattern(p, i - 1, NLanes(w))]

Unary == {"abs", "bitwise_not", "hadd"}
Binary == {"add", "sub", "mul", "bitwise_and", "bitwise_andnot", "bitwise_or", "bitwise_xor",
           "eq", "gt", "max", "min", "sadd", "ssub"}
ShiftScalar == {"bitwise_lshift", "bitwise_rshift"}
ShiftBatch == {"bitwise_lshift_batch", "bitwise_rshift_batch"}
Selects == {"select", "select_constant"}
Kernels == Unary \cup Binary \cup ShiftScalar \cup ShiftBatch \cup Selects \cup {"gather"}

Init ==
    /\ T \in Types
    /\ self = ZeroReg
    /\ other = ZeroReg
    /\ n = 0
    /\ cond = ZeroReg
    /\ values = <<>>
    /\ scale = 1
    /\ pc = "idle"
    /\ tier = "avx2"
    /\ kernel = "none"
    /\ path = <<>>
    /\ uses = {}
    /\ res = <<>>
    /\ maskv = <<>>
    /\ NDEBUG = FALSE
    /\ fn = "none"
    /\ arg = <<>>
    /\ out = <<>>
    /\ mem = <<>>
    /\ tpc = <<>>

\* a batch operator (operator+=, operator>>=, select, ...) calls kernel::k<A> with
\* A = avx2 on its operands
Call ==
    /\ pc = "idle"
    /\ \E k \in Kernels :
          /\ k = "gather" => (T.signed /\ T.size \in {4, 8})
          /\ kernel' = k
          /\ self' \in SelfInputs(T.size)
          /\ other' \in (IF k \in Binary \cup Selects THEN OtherInputs(T.size)
                         ELSE IF k \in ShiftBatch THEN {Ramp(T.size)}
                         ELSE {ZeroReg})
          /\ n' \in (IF k \in ShiftScalar THEN 0 .. 8 * T.size - 1 ELSE {0})
          /\ \E p \in (IF k \in Selects THEN 0 .. MaxPattern ELSE {0}) :
                /\ values' = IF k = "select_constant" THEN PatternValues(p, T.size) ELSE <<>>
                /\ cond' = IF k = "select" THEN batch_bool_init(T, PatternValues(p, T.size))
                           ELSE ZeroReg
          /\ scale' \in (IF k = "gather" THEN 0 .. MaxScale ELSE {1})
    /\ pc' = "call"
    /\ tier' = "avx2"
    /\ path' = <<>>
    /\ uses' = {}
    /\ res' = <<>>
    /\ maskv' = <<>>
    /\ UNCHANGED <<T, libvars, thvars>>

\* one kernel runs: it returns its value, or forwards the call
Step(r) ==
    /\ path' = Append(path, <<tier, kernel>>)
    /\ uses' = uses \cup r.uses
    /\ IF r.fwd = <<>>
       THEN /\ res' = r.val
            /\ pc' = "done"
            /\ UNCHANGED <<tier, kernel, cond>>
       ELSE /\ pc' = "call"
            /\ tier' = r.fwd[1]
            /\ kernel' = r.fwd[2]
            /\ cond' = IF r.arg = <<>> THEN cond ELSE r.arg
            /\ res' = res
    /\ UNCHANGED <<T, self, other, n, values, scale>>

At(k) == pc = "call" /\ tier = "avx2" /\ kernel = k

avx2_abs == At("abs") /\ Step(abs(T, self)) /\ UNCHANGED <<maskv, libvars, thvars>>
avx2_add == At("add") /\ Step(add(T, self, other)) /\ UNCHANGED <<maskv, libvars, thvars>>
avx2_bitwise_and == At("bitwise_and") /\ Step(bitwise_and(T, self, other)) /\ UNCHANGED <<maskv, libvars, thvars>>
avx2_bitwise_andnot ==
    At("bitwise_andnot") /\ Step(bitwise_andnot(T, self, other)) /\ UNCHANGED <<maskv, libvars, thvars>>
avx2_bitwise_not == At("bitwise_not") /\ Step(bitwise_not(T, self)) /\ UNCHANGED <<maskv, libvars, thvars>>
avx2_bitwise_lshift ==
    At("bitwise_lshift") /\ Step(bitwise_lshift(T, self, n)) /\ UNCHANGED <<maskv, libvars, thvars>>
avx2_bitwise_lshift_batch ==
    At("bitwise_lshift_batch") /\ Step(bitwise_lshift_batch(T, self, other)) /\ UNCHANGED <<maskv, libvars, thvars>>
avx2_bitwise_or == At("bitwise_or") /\ Step(bitwise_or(T, self, other)) /\ UNCHANGED <<maskv, libvars, thvars>>
avx2_bitwise_rshift ==
    At("bitwise_rshift") /\ Step(bitwise_rshift(T, self, n)) /\ UNCHANGED <<maskv, libvars, thvars>>
avx2_bitwise_rshift_batch ==
    At("bitwise_rshift_batch") /\ Step(bitwise_rshift_batch(T, self, other)) /\ UNCHANGED <<maskv, libvars, thvars>>
avx2_bitwise_xor == At("bitwise_xor") /\ Step(bitwise_xor(T, self, other)) /\ UNCHANGED <<maskv, libvars, thvars>>
avx2_eq == At("eq") /\ Step(eq(T, self, other)) /\ UNCHANGED <<maskv, libvars, thvars>>
avx2_gt == At("gt") /\ Step(gt(T, self, other)) /\ UNCHANGED <<maskv, libvars, thvars>>
avx2_hadd == At("hadd") /\ Step(hadd(T, self)) /\ UNCHANGED <<maskv, libvars, thvars>>
avx2_max == At("max") /\ Step(max(T, self, other)) /\ UNCHANGED <<maskv, libvars, thvars>>
avx2_min == At("min") /\ Step(min(T, self, other)) /\ UNCHANGED <<maskv, libvars, thvars>>
avx2_mul == At("mul") /\ Step(mul(T, self, other)) /\ UNCHANGED <<maskv, libvars, thvars>>
avx2_sadd == At("sadd") /\ Step(sadd(T, self, other)) /\ UNCHANGED <<maskv, libvars, thvars>>
avx2_ssub == At("ssub") /\ Step(ssub(T, self, other)) /\ UNCHANGED <<maskv, libvars, thvars>>
avx2_sub == At("sub") /\ Step(sub(T, self, other)) /\ UNCHANGED <<maskv, libvars, thvars>>
avx2_select == At("select") /\ Step(select(T, cond, self, other)) /\ UNCHANGED <<maskv, libvars, thvars>>
avx2_select_constant ==
    /\ At("select_constant")
    /\ Step(select_constant(T, values, self, other))
    /\ maskv' = mask(values)
    /\ UNCHANGED <<libvars, thvars>>

avx2_gather ==
    /\ At("gather")
    /\ LET g == gather(T, scale, self)
       IN /\ pc' = IF g.compiles THEN "done" ELSE "rejected"
          /\ res' = [offset |-> g.offset, scale |-> g.scale,
                     disp |-> mm256_gather_disp(T, g.offset, g.scale)]
    /\ path' = Append(path, <<tier, kernel>>)
    /\ UNCHANGED <<T, self, other, n, cond, values, scale, tier, kernel, uses, maskv>>
    /\ UNCHANGED <<libvars, thvars>>

\* the kernel of the parent tier runs
avx_kernel ==
    /\ pc = "call"
    /\ tier = "avx"
    /\ path' = Append(path, <<tier, kernel>>)
    /\ res' = avx(kernel, T, self, other, n, cond)
    /\ pc' = "done"
    /\ UNCHANGED <<T, self, other, n, cond, values, scale, tier, kernel, uses, maskv>>
    /\ UNCHANGED <<libvars, thvars>>

\* the caller takes the result; the operands and the result go out of scope
Return ==
    /\ pc \in {"done", "rejected"}
    /\ pc' = "idle"
    /\ self' = ZeroReg
    /\ other' = ZeroReg
    /\ n' = 0
    /\ cond' = ZeroReg
    /\ values' = <<>>
    /\ scale' = 1
    /\ tier' = "avx2"
    /\ kernel' = "none"
    /\ path' = <<>>
    /\ uses' = {}
    /\ res' = <<>>
    /\ maskv' = <<>>
    /\ UNCHANGED <<T, libvars, thvars>>

Next ==
    \/ Call
    \/ Return
    \/ avx2_abs
    \/ avx2_add
    \/ avx2_bitwise_and
    \/ avx2_bitwise_andnot
    \/ avx2_bitwise_not
    \/ avx2_bitwise_lshift
    \/ avx2_bitwise_lshift_batch
    \/ avx2_bitwise_or
    \/ avx2_bitwise_rshift
    \/ avx2_bitwise_rshift_batch
    \/ avx2_bitwise_xor
    \/ avx2_eq
    \/ avx2_gt
    \/ avx2_hadd
    \/ avx2_max
    \/ avx2_min
    \/ avx2_mul
    \/ avx2_sadd
    \/ avx2_ssub
    \/ avx2_sub
    \/ avx2_select
    \/ avx2_select_constant
    \/ avx2_gather
    \/ avx_kernel

Spec == Init /\ [][Next]_vars

(***************************************************************************)
(* The scalar operations on T, on the bits of a value: a value of T is the *)
(* sequence of its 8 * sizeof(T) bits, least significant first.            *)
(***************************************************************************)
\* a function on 1..N as a tuple, every element evaluated once
Tuple(f) == f \o <<>>
Bits(a, w) == Tuple([j \in 1 .. 8 * w |-> WBit(a, j - 1)])

RECURSIVE RefAddFrom(_, _, _, _)
RefAddFrom(x, y, j, c) ==
    IF j > Len(x) THEN <<>>
    ELSE LET t == x[j] + y[j] + c
         IN <<t % 2>> \o RefAddFrom(x, y, j + 1, t \div 2)

\* x + y modulo 2^Len(x)
RefAdd(x, y) == RefAddFrom(x, y, 1, 0)
RefNot(x) == Tuple([j \in 1 .. Len(x) |-> 1 - x[j]])
RefOne(N) == Tuple([j \in 1 .. N |-> IF j = 1 THEN 1 ELSE 0])
\* x - y modulo 2^Len(x)
RefSub(x, y) == RefAddFrom(x, RefNot(y), 1, 1)
RefShl(x, c) == Tuple([j \in 1 .. Len(x) |-> IF j - c >= 1 THEN x[j - c] ELSE 0])

RECURSIVE RefMulSum(_, _, _, _)
\* the sum of x * 2^(i-1) over the bits i in lo..hi of y that are set
RefMulSum(x, y, lo, hi) ==
    IF lo = hi
    THEN (IF y[lo] = 1 THEN RefShl(x, lo - 1) ELSE Tuple([i \in 1 .. Len(x) |-> 0]))
    ELSE RefAdd(RefMulSum(x, y, lo, (lo + hi) \div 2),
                RefMulSum(x, y, (lo + hi) \div 2 + 1, hi))

\* x * y modulo 2^Len(x)
RefMul(x, y) == RefMulSum(x, y, 1, Len(y))

RECURSIVE RefULessFrom(_, _, _)
RefULessFrom(x, y, j) ==
    IF j < 1 THEN FALSE
    ELSE IF x[j] # y[j] THEN x[j] < y[j]
    ELSE RefULessFrom(x, y, j - 1)

\* x < y as unsigned numbers, and as two's complement numbers
RefULess(x, y) == RefULessFrom(x, y, Len(x))
RefSLess(x, y) ==
    IF x[Len(x)] # y[Len(x)] THEN x[Len(x)] = 1 ELSE RefULess(x, y)
RefLess(T_, x, y) == IF T_.signed THEN RefSLess(x, y) ELSE RefULess(x, y)

\* the scalar operation op on two values of T: a value, or a truth value for eq and gt
scalar_op(op, T_, x, y) ==
    CASE op = "add" -> RefAdd(x, y)
      [] op = "sub" -> RefSub(x, y)
      [] op = "mul" -> RefMul(x, y)
      [] op = "bitwise_and" -> [j \in 1 .. Len(x) |-> x[j] * y[j]]
      [] op = "bitwise_or" -> [j \in 1 .. Len(x) |-> IF x[j] + y[j] > 0 THEN 1 ELSE 0]
      [] op = "bitwise_xor" -> [j \in 1 .. Len(x) |-> (x[j] + y[j]) % 2]
      [] op = "eq" -> x = y
      [] op = "gt" -> RefLess(T_, y, x)
      [] op = "min" -> IF RefLess(T_, y, x) THEN y ELSE x
      [] op = "max" -> IF RefLess(T_, x, y) THEN y ELSE x

LaneIds == 0 .. NLanes(T.size) - 1
SelfLane(i) == Lane(self, T.size, i)
OtherLane(i) == Lane(other, T.size, i)
ResLane(i) == Lane(res, T.size, i)

\* the lane a kernel must produce for the scalar result v
LaneOf(op, v, w) ==
    IF op \in {"eq", "gt"} THEN (IF v THEN WOnes(w) ELSE WZero(w))
    ELSE WFromBits([j \in 0 .. 8 * w - 1 |-> v[j + 1]], w)

LaneWiseOps == {"add", "sub", "mul", "bitwise_and", "bitwise_or", "bitwise_xor",
                "eq", "gt", "min", "max"}

\* C1: when one of add, sub, mul, bitwise_and, bitwise_or, bitwise_xor, eq, gt, min,
\* max has returned, every lane of the result is the scalar operation on the lanes of
\* the operands (wrapping, compared by the signedness of T, eq and gt giving an
\* all-ones or all-zeros lane), and an unsigned gt was answered by the parent tier.
C1_LaneWise ==
    (pc = "done" /\ kernel \in LaneWiseOps) =>
        /\ \A i \in LaneIds :
              ResLane(i) = LaneOf(kernel, scalar_op(kernel, T, Bits(SelfLane(i), T.size),
                                                    Bits(OtherLane(i), T.size)), T.size)
        /\ (kernel = "gt" /\ ~T.signed) => path = <<<<"avx2", "gt">>, <<"avx", "gt">>>>

\* an unsigned gt has returned with a lane where the signed comparison answers otherwise
C1_Witness ==
    /\ pc = "done"
    /\ kernel = "gt"
    /\ ~T.signed
    /\ \E i \in LaneIds :
          /\ WIsNeg(SelfLane(i), T.size)
          /\ ~WIsNeg(OtherLane(i), T.size)
          /\ ResLane(i) = WOnes(T.size)

(***************************************************************************)
(* Resolution of a call through the tiers.                                 *)
(***************************************************************************)
\* the kernels entered so far: those that ran, and the one about to run
Visited == IF pc = "call" THEN Append(path, <<tier, kernel>>) ELSE path

\* the operation a kernel overload implements
OpOf(k) ==
    CASE k = "select_constant" -> "select"
      [] k = "bitwise_lshift_batch" -> "bitwise_lshift"
      [] k = "bitwise_rshift_batch" -> "bitwise_rshift"
      [] OTHER -> k

\* an avx2 kernel is about to run
AtAvx2 == pc = "call" /\ tier = "avx2"
\* it computes its result with avx2 instructions only
ComputesNatively == pc' \in {"done", "rejected"} /\ uses' = uses
\* it hands the call to the same operation of the parent tier, operands unchanged
DelegatesToParent ==
    /\ pc' = "call"
    /\ tier' = "avx"
    /\ OpOf(kernel') = OpOf(kernel)
    /\ uses' = uses
    /\ UNCHANGED <<T, self, other, n, cond>>
\* the constant-mask select of 1- and 2-byte elements calls the runtime-mask select
\* of avx2 itself with the batch_bool built from the constant
SelectConstantToSelect ==
    /\ kernel = "select_constant"
    /\ T.size \in {1, 2}
    /\ pc' = "call"
    /\ tier' = "avx2"
    /\ kernel' = "select"
    /\ cond' = batch_bool_init(T, values)
    /\ uses' = uses
    /\ UNCHANGED <<T, self, other, n>>
\* the signed 1-byte scalar right shift calls bitwise_and of sse4_2 on the way
RshiftThroughSse ==
    /\ kernel = "bitwise_rshift"
    /\ T.signed
    /\ T.size = 1
    /\ pc' = "done"
    /\ uses' = uses \cup {<<"sse4_2", "bitwise_and">>}

HasKernel == (tier = "avx2" /\ kernel \in Kernels) \/ tier = "avx"

Avx2Visits == Cardinality({j \in 1 .. Len(Visited) : Visited[j][1] = "avx2"})

\* C3: during a resolution started at avx2 no (tier, kernel overload) pair is entered
\* twice, at most two kernels of avx2 are entered, a pending call always names a
\* kernel that can run, and once a parent kernel is entered no avx2 kernel follows.
C3_Terminates ==
    /\ \A i, j \in 1 .. Len(Visited) : i # j => Visited[i] # Visited[j]
    /\ Avx2Visits <= 2
    /\ pc = "call" => HasKernel
    /\ \A i, j \in 1 .. Len(Visited) : (i < j /\ Visited[i][1] # "avx2") => Visited[j][1] # "avx2"

\* the longest resolution has ended: constant-mask select, then runtime-mask select
C3_Witness ==
    /\ pc = "done"
    /\ path = <<<<"avx2", "select_constant">>, <<"avx2", "select">>>>

(***************************************************************************)
(* Results of the kernels.                                                 *)
(***************************************************************************)
\* the kernel the caller called, and whether avx2 itself produced the result
Entry == path[1][2]
ResolvedAtAvx2 == pc = "done" /\ path[Len(path)][1] = "avx2"

\* C4: whenever an avx2 kernel has produced the result of an integer operation
\* itself, the result is bit for bit the one the parent tier gives for the same
\* operands (for a constant-mask select: for the batch_bool of the same values).
C4_FallbackEquivalence ==
    (ResolvedAtAvx2 /\ kernel # "gather") =>
        res = IF kernel = "select_constant"
              THEN avx("select", T, self, other, n, batch_bool_init(T, values))
              ELSE avx(kernel, T, self, other, n, cond)

\* the synthesized signed 1-byte right shift has returned for a negative lane
C4_Witness ==
    /\ ResolvedAtAvx2
    /\ kernel = "bitwise_rshift"
    /\ T.signed
    /\ T.size = 1
    /\ n = 3
    /\ \E i \in LaneIds : WIsNeg(SelfLane(i), 1)

\* C5: for 8-byte lanes, signed or unsigned, every lane of the result of the avx2
\* mul is the product of the two operand lanes modulo 2^64.
C5_Mul64 ==
    (pc = "done" /\ kernel = "mul" /\ T.size = 8) =>
        /\ path = <<<<"avx2", "mul">>>>
        /\ \A i \in LaneIds :
              ResLane(i) = LaneOf("mul", RefMul(Bits(SelfLane(i), 8), Bits(OtherLane(i), 8)), 8)

\* an 8-byte mul has returned for a lane both of whose operands have non-zero low
\* and high halves, next to a lane with other operands
C5_Witness ==
    /\ pc = "done"
    /\ kernel = "mul"
    /\ T.size = 8
    /\ \E i \in LaneIds :
          /\ Lane(SelfLane(i), 4, 0) # WZero(4) /\ Lane(SelfLane(i), 4, 1) # WZero(4)
          /\ Lane(OtherLane(i), 4, 0) # WZero(4) /\ Lane(OtherLane(i), 4, 1) # WZero(4)
          /\ \E j \in LaneIds : SelfLane(j) # SelfLane(i) /\ OtherLane(j) # OtherLane(i)

\* x extended to N bits by its sign (sg) or by zeros
RefExt(x, sg, N) ==
    Tuple([j \in 1 .. N |-> IF j <= Len(x) THEN x[j] ELSE IF sg THEN x[Len(x)] ELSE 0])

\* r = floor(x / 2^c): 0 <= x - r * 2^c < 2^c, computed without overflow in twice
\* the width
IsFloorDiv(x, r, c, sg) ==
    LET d == RefSub(RefExt(x, sg, 2 * Len(x)), RefShl(RefExt(r, sg, 2 * Len(x)), c))
    IN \A j \in c + 1 .. 2 * Len(x) : d[j] = 0

\* the 4-byte lane of a small integer
Int32Lane(v) == IF v < 0 THEN WNeg(WNat(-v, 4), 4) ELSE WNat(v, 4)
Int32Batch(vs) == FromLanes([i \in 0 .. 7 |-> Int32Lane(vs[i + 1])], 4, RegBytes)

\* C6: a scalar right shift by n < bit width gives floor(x / 2^n) in every lane, x
\* read as signed for signed T and as unsigned for unsigned T; [0..7] >> 1 is
\* [0,0,1,1,2,2,3,3] and [0,-1,..,-7] >> 1 is [0,-1,-1,-2,-2,-3,-3,-4] for int32.
C6_RightShift ==
    (pc = "done" /\ kernel = "bitwise_rshift") =>
        /\ \A i \in LaneIds :
              IsFloorDiv(Bits(SelfLane(i), T.size), Bits(ResLane(i), T.size), n, T.signed)
        /\ (T.size = 4 /\ n = 1 /\ self = Int32Batch(<<0, 1, 2, 3, 4, 5, 6, 7>>))
              => res = Int32Batch(<<0, 0, 1, 1, 2, 2, 3, 3>>)
        /\ (T.size = 4 /\ T.signed /\ n = 1
              /\ self = Int32Batch(<<0, -1, -2, -3, -4, -5, -6, -7>>))
              => res = Int32Batch(<<0, -1, -1, -2, -2, -3, -3, -4>>)

\* the negated ramp of int32 has been shifted right by 1
C6_Witness ==
    /\ pc = "done"
    /\ kernel = "bitwise_rshift"
    /\ T = [signed |-> TRUE, size |-> 4]
    /\ n = 1
    /\ self = Int32Batch(<<0, -1, -2, -3, -4, -5, -6, -7>>)
    /\ path = <<<<"avx2", "bitwise_rshift">>>>

\* the truth value of lane i of the condition of the select that was called
CondLane(i) ==
    IF Entry = "select_constant" THEN values[i + 1]
    ELSE Lane(cond, T.size, i) = WOnes(T.size)

\* C7: a select whose condition lanes are all true or all false returns a[i] where
\* the condition holds and b[i] elsewhere, for a runtime mask and for a constant
\* mask of every element width, and the constant form returns what the runtime form
\* returns for the batch_bool of the same values.
C7_SelectLaw ==
    (pc = "done" /\ OpOf(Entry) = "select") =>
        /\ \A i \in LaneIds : ResLane(i) = IF CondLane(i) THEN SelfLane(i) ELSE OtherLane(i)
        /\ Entry = "select_constant"
              => res = select(T, batch_bool_init(T, values), self, other).val

\* a constant-mask select on 8-byte lanes has returned for a mixed mask
C7_Witness ==
    /\ pc = "done"
    /\ path = <<<<"avx2", "select_constant">>>>
    /\ T.size = 8
    /\ values[1] # values[2]
    /\ \E i \in LaneIds : SelfLane(i) # OtherLane(i)

\* C8: bit i of mask() is 1 exactly when Values[i] is true, for every lane count up
\* to 32, and no bit beyond the lanes is set.
C8_MaskBits ==
    (Len(path) >= 1 /\ Entry = "select_constant") =>
        \A j \in 0 .. IntBits - 1 :
            (maskv[j] = 1) <=> (j < Len(values) /\ values[j + 1])

\* the mask of 32 lanes of which only the last is true has been computed
C8_Witness ==
    /\ Len(path) >= 1
    /\ Entry = "select_constant"
    /\ Len(values) = 32
    /\ values[32]
    /\ ~values[1]
    /\ maskv[31] = 1

RECURSIVE RefSumLanes(_)
\* the sum of lanes 0..i of self modulo 2^(8 sizeof(T))
RefSumLanes(i) ==
    IF i = 0 THEN Bits(SelfLane(0), T.size)
    ELSE RefAdd(Bits(SelfLane(i), T.size), RefSumLanes(i - 1))

\* C9: hadd of a 4-byte or 8-byte integer batch is computed by avx2 and is the sum
\* of all lanes modulo 2^(8 sizeof(T)); for 1- and 2-byte integers it is the
\* parent's hadd.
C9_Hadd ==
    (pc = "done" /\ kernel = "hadd") =>
        IF T.size \in {4, 8}
        THEN /\ path = <<<<"avx2", "hadd">>>>
             /\ Bits(res, T.size) = RefSumLanes(NLanes(T.size) - 1)
        ELSE path = <<<<"avx2", "hadd">>, <<"avx", "hadd">>>>

\* hadd of eight different 4-byte lanes has returned
C9_Witness ==
    /\ pc = "done"
    /\ kernel = "hadd"
    /\ T.size = 4
    /\ self = NegRamp(4)
    /\ res = Int32Lane(-28)

\* the product of the w-byte two's complement word a and the small number m, as a
\* two's complement word of w + 4 bytes (no overflow for m < 2^24)
WideMul(a, w, m) == WMulLo(WSignExt(a, w, w + 4), WNat(m, w + 4), w + 4)
\* whether a word of w + 4 bytes is the sign extension of its low w bytes
FitsIn(x, w) == WSignExt(WResize(x, w + 4, w), w, w + 4) = x

GatherDone == pc = "done" /\ kernel = "gather" /\ scale >= 1

\* C10 as stated: for every scale >= 1 and every offset batch, the hardware scale is
\* 1, 2, 4 or 8 and hardware scale * adjusted offset = scale * offset in every lane.
C10_Original ==
    GatherDone =>
        /\ res.scale \in {1, 2, 4, 8}
        /\ \A i \in LaneIds :
              WideMul(Lane(res.offset, T.size, i), T.size, res.scale)
                  = WideMul(SelfLane(i), T.size, scale)

\* C10 amended: the same for every lane whose offset times (scale / hardware scale)
\* is representable in the element type of the offset batch; lane i is then read at
\* the byte displacement scale * offset[i] from mem.
C10_Amended ==
    GatherDone =>
        /\ res.scale \in {1, 2, 4, 8}
        /\ \A i \in LaneIds :
              FitsIn(WideMul(SelfLane(i), T.size, scale \div res.scale), T.size) =>
                  /\ WideMul(Lane(res.offset, T.size, i), T.size, res.scale)
                        = WideMul(SelfLane(i), T.size, scale)
                  /\ res.disp[i] = WResize(WSignExt(WideMul(SelfLane(i), T.size, scale),
                                                    T.size + 4, T.size + 8), T.size + 8, 8)

\* a gather with scale 12 (hardware scale 4, offsets tripled) has been issued for
\* negative 4-byte offsets
C10_Witness ==
    /\ GatherDone
    /\ scale = 12
    /\ res.scale = 4
    /\ T.size = 4
    /\ self = NegRamp(4)
    /\ Lane(res.offset, 4, 1) = Int32Lane(-3)

(***************************************************************************)
(* The batch types and their utilities (xsimd_batch.hpp,                   *)
(* xsimd_batch_constant.hpp, xsimd_gather_utils.hpp, detail::prescaler):   *)
(* one operation at a time, on arguments drawn from the sets below.        *)
(***************************************************************************)
\* the value of a kernel: computed at avx2 or by the parent tier it forwards to
kernel_value(k, r, Ty, a, b) == IF r.fwd = <<>> THEN r.val ELSE avx(k, Ty, a, b, 0, <<>>)

kvars == <<T, self, other, n, cond, values, scale, pc, tier, kernel, path, uses, res, maskv>>

\* the longest candidate list of a prescaler
MaxCandidates == 3
\* the candidate scales
CandidateScales == {1, 2, 3, 4, 8}
CandidateLists == UNION {[1 .. l -> CandidateScales] : l \in 1 .. MaxCandidates}

LibInit ==
    /\ T \in Types
    /\ self = ZeroReg
    /\ other = ZeroReg
    /\ n = 0
    /\ cond = ZeroReg
    /\ values = <<>>
    /\ scale = 1
    /\ pc = "idle"
    /\ tier = "avx2"
    /\ kernel = "none"
    /\ path = <<>>
    /\ uses = {}
    /\ res = <<>>
    /\ maskv = <<>>
    /\ NDEBUG \in BOOLEAN
    /\ fn = "none"
    /\ arg = <<>>
    /\ out = <<>>
    /\ mem = <<>>
    /\ tpc = <<>>

\* an operation is called with arguments a and ends with outcome o
Apply(f, a, o) ==
    /\ fn = "none"
    /\ fn' = f
    /\ arg' = a
    /\ out' = o
    /\ UNCHANGED <<NDEBUG, kvars, thvars>>

\* prescaler<required_scale, scales...> is instantiated: the program is rejected when
\* the static_assert fails, otherwise scale and prescale are the constants it defines
prescaler(required_scale, scales) ==
    IF prescaler_assert(required_scale, scales)
    THEN [scale |-> prescaler_scale(required_scale, scales),
          status |-> "ok",
          prescale |-> prescaler_prescale(required_scale, scales)]
    ELSE [status |-> "compile_error"]

lib_prescaler ==
    \E r \in 0 .. MaxScale, sc \in CandidateLists :
        Apply("prescaler", [required_scale |-> r, scales |-> sc], prescaler(r, sc))

\* by how much the length of a lane list may differ from size
MaxExtra == 1
\* what a read past the end of a list may find
Garbage == {0, 255}
\* the lane lists: element j holds j
LaneLists == {[j \in 1 .. l |-> j] : l \in NLanes(T.size) - MaxExtra .. NLanes(T.size) + MaxExtra}

\* batch(std::initializer_list<T> data) is called
batch_init_list ==
    \E data \in LaneLists : Apply("batch_init_list", [data |-> data], [status |-> "called"])

\* data[Is]... of the delegated constructor: the first size elements, where an element
\* past the end of the list is whatever the read finds there (g)
set_from(data, size, g) == [i \in 1 .. size |-> IF i <= Len(data) THEN data[i] ELSE g]

\* a condition that lets longer lists pass
batch_init_list_at_least(data_size, size) == data_size >= size

\* the condition asserted in the body of batch(std::initializer_list<T>)
batch_init_list_condition(data_size, size) == data_size = size

\* assert(c): nothing when NDEBUG is defined, otherwise the program is aborted unless c
assert(c) == NDEBUG \/ c

\* a constructor that checks the length before the delegated constructor reads
batch_index_sequence_after_assert ==
    /\ fn = "batch_init_list"
    /\ out.status = "called"
    /\ IF assert(batch_init_list_condition(Len(arg.data), NLanes(T.size)))
       THEN \/ \E g \in Garbage :
                  out' = [status |-> "constructed",
                          lanes |-> set_from(arg.data, NLanes(T.size), g)]
            \/ /\ Len(arg.data) < NLanes(T.size)
               /\ out' = [status |-> "fault"]
       ELSE out' = [status |-> "assert_failed"]
    /\ UNCHANGED <<fn, arg, NDEBUG, kvars, thvars>>

\* the delegated constructor batch(T const* data, index_sequence<Is...>) runs first: a
\* read past the end of the list is undefined, it finds anything or faults
batch_index_sequence ==
    /\ fn = "batch_init_list"
    /\ out.status = "called"
    /\ \/ \E g \in Garbage :
             out' = [status |-> "constructed",
                     lanes |-> set_from(arg.data, NLanes(T.size), g)]
       \/ /\ Len(arg.data) < NLanes(T.size)
          /\ out' = [status |-> "fault"]
    /\ UNCHANGED <<fn, arg, NDEBUG, kvars, thvars>>

\* the body of batch(std::initializer_list<T>) runs
batch_init_list_body ==
    /\ fn = "batch_init_list"
    /\ out.status = "constructed"
    /\ out' = IF assert(batch_init_list_condition(Len(arg.data), NLanes(T.size)))
              THEN [status |-> "ok", lanes |-> out.lanes]
              ELSE [status |-> "assert_failed"]
    /\ UNCHANGED <<fn, arg, NDEBUG, kvars, thvars>>

(***************************************************************************)
(* batch_constant and the batch-alikes of xsimd_gather_utils.hpp.  A       *)
(* std::size_t is a word of SizeT bytes.                                   *)
(***************************************************************************)
SizeT == 8
\* the std::size_t b * 2^(8k)
SizeWord(b, k) == [j \in 0 .. SizeT - 1 |-> IF j = k THEN b ELSE 0]

\* the generators: detail::ramp_generator, and generators a caller may write
Generators == {"ramp", "reverse", "constant"}
BoolGenerators == {"even", "last"}
generator_get(G, index, size) ==
    CASE G = "ramp" -> index
      [] G = "reverse" -> size - 1 - index
      [] G = "constant" -> 7
      [] G = "even" -> index % 2 = 0
      [] OTHER -> index = size - 1

\* static_cast<value_type> of an index-sized number
value_type(Ty, v) == WNat(v, Ty.size)

\* detail::make_batch_constant<batch_type, G>(index_sequence<Is...>): the Values
make_batch_constant(Ty, G) ==
    [i \in 1 .. NLanes(Ty.size) |-> value_type(Ty, generator_get(G, i - 1, NLanes(Ty.size)))]
make_batch_bool_constant(Ty, G) ==
    [i \in 1 .. NLanes(Ty.size) |-> generator_get(G, i - 1, NLanes(Ty.size))]

RECURSIVE get_at_index_from_one(_, _)
\* get_at_index counting the elements from one
get_at_index_from_one(i, vs) ==
    IF Len(vs) = 1 THEN Head(vs)
    ELSE IF i = 1 THEN Head(vs) ELSE get_at_index_from_one(i - 1, Tail(vs))

\* get_at_index taking the index modulo the number of values
get_at_index_wrapping(i, vs) == vs[(i % Len(vs)) + 1]

RECURSIVE get_at_index(_, _)
\* detail::get_at_index(i, head, tail...)
get_at_index(i, vs) ==
    IF Len(vs) = 1 THEN Head(vs)
    ELSE IF i = 0 THEN Head(vs) ELSE get_at_index(i - 1, Tail(vs))

\* batch_constant::operator batch_type(): { Values... }
batch_constant_to_batch(Ty, vs) ==
    FromLanes([i \in 0 .. NLanes(Ty.size) - 1 |-> vs[i + 1]], Ty.size, RegBytes)

\* batch(T val) of a value given as a word
batch_scalar(Ty, v) == FromLanes([i \in 0 .. NLanes(Ty.size) - 1 |-> v], Ty.size, RegBytes)

\* operator*(batch, batch) and operator<(batch, batch) for every element type
batch_times(Ty, a, b) == kernel_value("mul", mul(Ty, a, b), Ty, a, b)
batch_lt(Ty, a, b) == kernel_value("gt", gt(Ty, b, a), Ty, b, a)

\* stride_offset::get(i): stride * i in std::size_t
stride_offset_get(stride, i) == WMulLo(stride, WNat(i, SizeT), SizeT)

\* stride_offset::operator batch_type(): (batch_type)ramp * (value_type)stride
stride_offset_batch(Ty, stride) ==
    LET ramp == make_batch_constant(Ty, "ramp")
    IN batch_times(Ty, batch_constant_to_batch(Ty, ramp),
                   batch_scalar(Ty, WResize(stride, SizeT, Ty.size)))

Strides == {SizeWord(b, k) : b \in {0, 1, 3, 9, 64}, k \in {0, 1, 3, 7}}

lib_stride_offset ==
    \E stride \in Strides :
        Apply("stride_offset", [stride |-> stride],
              [batch |-> stride_offset_batch(T, stride),
               get |-> [i \in 0 .. NLanes(T.size) - 1 |-> stride_offset_get(stride, i)]])

\* as_integer_t<batch_type>: the signed integer type of the same size
as_integer(Ty) == [signed |-> TRUE, size |-> Ty.size]

\* first_n_true::get(i): i < n in std::size_t
first_n_true_get(cnt, i) == WULess(WNat(i, SizeT), cnt, SizeT)

\* first_n_true::operator batch_bool_type(): (int_batch)ramp < int_batch(n)
first_n_true_batch_bool(Ty, cnt) ==
    LET int_batch == as_integer(Ty)
        ramp == make_batch_constant(int_batch, "ramp")
    IN batch_lt(int_batch, batch_constant_to_batch(int_batch, ramp),
                batch_scalar(int_batch, WResize(cnt, SizeT, Ty.size)))

Counts == {SizeWord(b, k) : b \in {0, 1, 3, 31, 127, 128, 200}, k \in {0, 1, 3, 7}}

lib_first_n_true ==
    \E cnt \in Counts :
        Apply("first_n_true", [n |-> cnt],
              [batch |-> first_n_true_batch_bool(T, cnt),
               get |-> [i \in 0 .. NLanes(T.size) - 1 |-> first_n_true_get(cnt, i)]])

\* batch::get(i): the batch is stored to a local buffer, element i is returned
batch_get(Ty, b, i) == Lane(b, Ty.size, i)

\* xsimd::bitwise_cast<signed_batch>(b): the same register under the signed type
bitwise_cast(b) == [k \in 0 .. RegBytes - 1 |-> b[k]]

\* allow_signed_conversion::get returning the magnitude of the lane
allow_signed_conversion_get_abs(Ty, b, i) ==
    WAbs(batch_get(Ty, b, i), batch_get(Ty, b, i), Ty.size)

\* allow_signed_conversion::get(i): static_cast<unsigned_t>(b.get(i))
allow_signed_conversion_get(Ty, b, i) == batch_get(Ty, b, i)

\* allow_signed_conversion::operator signed_batch()
allow_signed_conversion_batch(Ty, b) == bitwise_cast(b)

lib_allow_signed_conversion ==
    \E b \in SelfInputs(T.size) :
        Apply("allow_signed_conversion", [b |-> b],
              [batch |-> allow_signed_conversion_batch(T, b),
               get |-> [i \in 0 .. NLanes(T.size) - 1 |-> allow_signed_conversion_get(T, b, i)]])

\* batch_bool_constant::operator batch_bool(): { Values... }
batch_bool_constant_to_batch_bool(Ty, vs) == batch_bool_init(Ty, vs)

\* make_batch_constant<batch_type, G>(): the constant, its get and its conversion
lib_make_batch_constant ==
    \E G \in Generators :
        LET c == make_batch_constant(T, G)
        IN Apply("make_batch_constant", [G |-> G],
                 [Values |-> c,
                  batch |-> batch_constant_to_batch(T, c),
                  get |-> [i \in 0 .. NLanes(T.size) - 1 |-> get_at_index(i, c)]])

lib_make_batch_bool_constant ==
    \E G \in BoolGenerators :
        LET c == make_batch_bool_constant(T, G)
        IN Apply("make_batch_bool_constant", [G |-> G],
                 [Values |-> c,
                  batch |-> batch_bool_constant_to_batch_bool(T, c),
                  get |-> [i \in 0 .. NLanes(T.size) - 1 |-> get_at_index(i, c)]])

\* the indices past the last lane that get is called with
OutOfRange == {NLanes(T.size), NLanes(T.size) + MaxExtra, 2 * NLanes(T.size) + 1}

\* batch_constant<batch_type, Values...>::get(i) for an i that is not a lane
batch_constant_get ==
    \E G \in Generators, i \in OutOfRange :
        Apply("batch_constant::get", <<make_batch_constant(T, G), i>>,
              get_at_index(i, make_batch_constant(T, G)))

\* batch_bool_constant<batch_type, Values...>::get(i) for an i that is not a lane
batch_bool_constant_get ==
    \E G \in BoolGenerators, i \in OutOfRange :
        Apply("batch_bool_constant::get", <<make_batch_bool_constant(T, G), i>>,
              get_at_index(i, make_batch_bool_constant(T, G)))

\* batch_bool(register_type reg): the register is kept as it is
batch_bool_register(reg) == reg

\* mask registers: true in the even lanes; the top bit alone in the even bytes; all
\* ones in the lowest byte of every lane; 127 in every byte; the top bit and more in
\* every byte
MaskRegisters ==
    {[k \in 0 .. RegBytes - 1 |-> IF (k \div T.size) % 2 = 0 THEN 255 ELSE 0],
     [k \in 0 .. RegBytes - 1 |-> IF k % 2 = 0 THEN 128 ELSE 0],
     [k \in 0 .. RegBytes - 1 |-> IF k % T.size = 0 THEN 255 ELSE 0],
     [k \in 0 .. RegBytes - 1 |-> 127],
     [k \in 0 .. RegBytes - 1 |-> 128 + (k % 3)]}

\* select(batch_bool(reg), a, b) on batches all of whose bytes differ
select_register ==
    \E reg \in MaskRegisters, base \in {1, 60} :
        LET a == [k \in 0 .. RegBytes - 1 |-> base + k]
            b == [k \in 0 .. RegBytes - 1 |-> 100 + base + k]
        IN Apply("select(register)", <<reg, a, b>>,
                 select(T, batch_bool_register(reg), a, b))

\* LIB-ACTIONS-END
\* the operation is over; its arguments and its result go out of scope
LibReturn ==
    /\ fn # "none"
    /\ fn' = "none"
    /\ arg' = <<>>
    /\ out' = <<>>
    /\ UNCHANGED <<NDEBUG, kvars, thvars>>

LibNext ==
    \/ lib_prescaler
    \/ batch_init_list
    \/ batch_index_sequence
    \/ batch_init_list_body
    \/ lib_stride_offset
    \/ lib_first_n_true
    \/ lib_allow_signed_conversion
    \/ lib_make_batch_constant
    \/ lib_make_batch_bool_constant
    \/ batch_constant_get
    \/ batch_bool_constant_get
    \/ select_register
    \/ LibReturn

LibSpec == LibInit /\ [][LibNext]_vars

(***************************************************************************)
(* Properties of the batch types and their utilities.                      *)
(***************************************************************************)
\* the candidate select_scale settles on: the first of all but the last that divides
\* the required scale, the last one otherwise
ChosenCandidate(r, sc) ==
    LET div == {i \in 1 .. Len(sc) - 1 : r % sc[i] = 0}
    IN IF div = {} THEN sc[Len(sc)] ELSE sc[CHOOSE i \in div : \A j \in div : i <= j]

\* C11: whenever the candidate chosen by select_scale does not divide the required
\* scale, instantiating the prescaler is a compile error, and every prescaler that
\* compiles has scale * prescale = required scale.
C11_NoDivisorRejected ==
    fn = "prescaler" =>
        /\ arg.required_scale % ChosenCandidate(arg.required_scale, arg.scales) # 0
              => out.status = "compile_error"
        /\ out.status = "ok" =>
              /\ out.scale = ChosenCandidate(arg.required_scale, arg.scales)
              /\ out.scale * out.prescale = arg.required_scale

\* prescaler<3, 8, 4, 2> has been rejected
C11_Witness ==
    /\ fn = "prescaler"
    /\ arg.required_scale = 3
    /\ arg.scales = <<8, 4, 2>>
    /\ out.status = "compile_error"

\* the call of batch(std::initializer_list<T>) is over
InitListOver == fn = "batch_init_list" /\ out.status \in {"ok", "assert_failed", "fault"}

\* C12 as stated: a lane list whose length differs from size always ends in an
\* assertion failure, never in a batch.
C12_Original ==
    (InitListOver /\ Len(arg.data) # NLanes(T.size)) => out.status = "assert_failed"

\* C12 amended: with assertions enabled a list of another length ends in an assertion
\* failure (or, for a shorter list, in a fault of the read past its end, which comes
\* first); with NDEBUG defined there is no report: the batch holds the first size
\* elements of a longer list, and a shorter list is padded with what lies past its end.
\* A list of length size always gives the batch of its elements.
C12_Amended ==
    InitListOver =>
        /\ Len(arg.data) = NLanes(T.size) => (out.status = "ok" /\ out.lanes = arg.data)
        /\ (Len(arg.data) > NLanes(T.size) /\ ~NDEBUG) => out.status = "assert_failed"
        /\ (Len(arg.data) < NLanes(T.size) /\ ~NDEBUG) => out.status \in {"assert_failed", "fault"}
        /\ (Len(arg.data) > NLanes(T.size) /\ NDEBUG) =>
              (out.status = "ok" /\ out.lanes = SubSeq(arg.data, 1, NLanes(T.size)))
        /\ (Len(arg.data) < NLanes(T.size) /\ NDEBUG) =>
              \/ out.status = "fault"
              \/ /\ out.status = "ok"
                 /\ SubSeq(out.lanes, 1, Len(arg.data)) = arg.data
                 /\ \A i \in Len(arg.data) + 1 .. NLanes(T.size) : out.lanes[i] \in Garbage

\* with assertions enabled, a list one element too long has ended in an assertion failure
C12_Witness ==
    /\ fn = "batch_init_list"
    /\ ~NDEBUG
    /\ Len(arg.data) = NLanes(T.size) + 1
    /\ out.status = "assert_failed"

(***************************************************************************)
(* batch_bool: the values the constructors and the comparisons produce and *)
(* the operations that combine them.                                       *)
(***************************************************************************)
\* kernel::eq on two batch_bool: lane-wise comparison of the two masks
kernel_eq_bool(Ty, a, b) ==
    FromLanes([i \in 0 .. NLanes(Ty.size) - 1 |->
                  IF Lane(a, Ty.size, i) = Lane(b, Ty.size, i)
                  THEN WOnes(Ty.size) ELSE WZero(Ty.size)], Ty.size, RegBytes)

\* kernel::neq: the lanes that differ are all ones
kernel_neq(Ty, a, b) ==
    FromLanes([i \in 0 .. NLanes(Ty.size) - 1 |->
                  IF Lane(a, Ty.size, i) # Lane(b, Ty.size, i)
                  THEN WOnes(Ty.size) ELSE WZero(Ty.size)], Ty.size, RegBytes)

\* batch_bool(bool val): make_register(make_index_sequence<size - 1>(), val)
batch_bool_broadcast(Ty, val) == set_bool(Ty, [i \in 1 .. NLanes(Ty.size) |-> val])

\* batch_bool::load_aligned(bool const* mem)
batch_bool_load_aligned(Ty, m) ==
    LET ref == broadcast(Ty, 0)
        buffer == FromLanes([i \in 0 .. NLanes(Ty.size) - 1 |->
                                WNat(IF m[i + 1] THEN 1 ELSE 0, Ty.size)],
                            Ty.size, RegBytes)
    IN kernel_neq(Ty, ref, buffer)

\* batch::operator== and operator> on two batches
batch_eq(Ty, a, b) == kernel_value("eq", eq(Ty, a, b), Ty, a, b)
batch_gt(Ty, a, b) == kernel_value("gt", gt(Ty, a, b), Ty, a, b)

\* the operators of batch_bool
batch_bool_eq(Ty, a, b) == kernel_eq_bool(Ty, a, b)
batch_bool_neq(Ty, a, b) == kernel_neq(Ty, a, b)
batch_bool_not(Ty, a) == bitwise_not(Ty, a).val
batch_bool_lnot(Ty, a) == batch_bool_eq(Ty, a, batch_bool_broadcast(Ty, FALSE))
batch_bool_and(Ty, a, b) == bitwise_and(Ty, a, b).val
batch_bool_or(Ty, a, b) == bitwise_or(Ty, a, b).val
batch_bool_land(Ty, a, b) == batch_bool_and(Ty, a, b)
batch_bool_lor(Ty, a, b) == batch_bool_or(Ty, a, b)

\* the boolean lane lists the values are made from
BoolLists == {PatternValues(p, T.size) : p \in {0, 1, 2, 3}}
\* batches to compare: lanes 0 and 1, and lanes 0 and -1 (the largest unsigned value)
ComparedInputs ==
    {FromLanes([i \in 0 .. NLanes(T.size) - 1 |->
                   IF PatternValues(p, T.size)[i + 1] THEN v ELSE WZero(T.size)],
               T.size, RegBytes) : p \in {2, 3}, v \in {WNat(1, T.size), WOnes(T.size)}}
ComparedBatches == ComparedInputs \X ComparedInputs

Constructors == {"batch_bool(bool)", "batch_bool(init_list)", "load_aligned", "eq", "gt"}
UnaryBoolOps == {"bitwise_not", "operator~", "operator!"}
BinaryBoolOps == {"bitwise_and", "bitwise_or", "bitwise_xor", "bitwise_andnot",
                  "operator==", "operator!=", "operator&&", "operator||"}

\* a batch_bool is made: arg records what it was made from
Construct(f, a, o) ==
    /\ fn = "none"
    /\ fn' = f
    /\ arg' = a
    /\ out' = o
    /\ UNCHANGED <<NDEBUG, kvars, thvars>>

bool_broadcast ==
    /\ fn = "none"
    /\ \E val \in BOOLEAN : Construct("batch_bool(bool)", <<val>>, batch_bool_broadcast(T, val))

bool_init_list ==
    /\ fn = "none"
    /\ \E data \in BoolLists : Construct("batch_bool(init_list)", <<data>>, batch_bool_init(T, data))

bool_load_aligned ==
    /\ fn = "none"
    /\ \E m \in BoolLists : Construct("load_aligned", <<m>>, batch_bool_load_aligned(T, m))

bool_eq ==
    /\ fn = "none"
    /\ \E ab \in ComparedBatches : Construct("eq", ab, batch_eq(T, ab[1], ab[2]))

bool_gt ==
    /\ fn = "none"
    /\ \E ab \in ComparedBatches : Construct("gt", ab, batch_gt(T, ab[1], ab[2]))

\* the second operand of an operation: a fresh batch_bool or the first operand itself
SecondOperands == {batch_bool_init(T, PatternValues(p, T.size)) : p \in {2, 3}} \cup {out}

\* an operation on the batch_bool made so far; its result is the next first operand
HasValue == fn \in Constructors \cup UnaryBoolOps \cup BinaryBoolOps

Operate(f, a, o) ==
    /\ HasValue
    /\ fn' = f
    /\ arg' = a
    /\ out' = o
    /\ UNCHANGED <<NDEBUG, kvars, thvars>>

bool_bitwise_and ==
    /\ HasValue
    /\ \E y \in SecondOperands : Operate("bitwise_and", <<out, y>>, bitwise_and(T, out, y).val)

bool_bitwise_or ==
    /\ HasValue
    /\ \E y \in SecondOperands : Operate("bitwise_or", <<out, y>>, bitwise_or(T, out, y).val)

bool_bitwise_xor ==
    /\ HasValue
    /\ \E y \in SecondOperands : Operate("bitwise_xor", <<out, y>>, bitwise_xor(T, out, y).val)

bool_bitwise_andnot ==
    /\ HasValue
    /\ \E y \in SecondOperands :
           Operate("bitwise_andnot", <<out, y>>, bitwise_andnot(T, out, y).val)

bool_bitwise_not == Operate("bitwise_not", <<out>>, bitwise_not(T, out).val)

bool_operator_eq ==
    /\ HasValue
    /\ \E y \in SecondOperands : Operate("operator==", <<out, y>>, batch_bool_eq(T, out, y))

bool_operator_neq ==
    /\ HasValue
    /\ \E y \in SecondOperands : Operate("operator!=", <<out, y>>, batch_bool_neq(T, out, y))

bool_operator_not == Operate("operator~", <<out>>, batch_bool_not(T, out))

bool_operator_lnot == Operate("operator!", <<out>>, batch_bool_lnot(T, out))

bool_operator_land ==
    /\ HasValue
    /\ \E y \in SecondOperands : Operate("operator&&", <<out, y>>, batch_bool_land(T, out, y))

bool_operator_lor ==
    /\ HasValue
    /\ \E y \in SecondOperands : Operate("operator||", <<out, y>>, batch_bool_lor(T, out, y))

\* the truth value of lane i of a batch_bool
Truth(b, i) == Lane(b, T.size, i) = WOnes(T.size)
Canonical(b) == \A i \in LaneIds : Lane(b, T.size, i) \in {WZero(T.size), WOnes(T.size)}

\* the logical operation an operation of batch_bool stands for
Logical(f, p, q) ==
    CASE f \in {"bitwise_and", "operator&&"} -> p /\ q
      [] f \in {"bitwise_or", "operator||"} -> p \/ q
      [] f \in {"bitwise_xor", "operator!="} -> p # q
      [] f = "bitwise_andnot" -> ~p /\ q
      [] f = "operator==" -> p = q
      [] OTHER -> ~p

\* C13: every batch_bool made by a constructor or a comparison, and every result of
\* an operation on such values, has only all-zero and all-one lanes, and the lane
\* of a result is the logical and, or, xor, not of the lanes of its operands
C13_CanonicalLanes ==
    /\ fn \in Constructors \cup UnaryBoolOps \cup BinaryBoolOps => Canonical(out)
    /\ fn \in {"batch_bool(init_list)", "load_aligned"} =>
          \A i \in LaneIds : Truth(out, i) = arg[1][i + 1]
    /\ fn = "batch_bool(bool)" => \A i \in LaneIds : Truth(out, i) = arg[1]
    /\ fn \in UnaryBoolOps =>
          \A i \in LaneIds : Truth(out, i) = Logical(fn, Truth(arg[1], i), FALSE)
    /\ fn \in BinaryBoolOps =>
          \A i \in LaneIds :
              Truth(out, i) = Logical(fn, Truth(arg[1], i), Truth(arg[2], i))

\* an andnot of two values with mixed lanes, the first itself the result of an
\* operation, gives a value with true and false lanes
C13_Witness ==
    /\ fn = "bitwise_andnot"
    /\ arg[1] \notin SecondOperands \ {out}
    /\ \E i, j \in LaneIds : Truth(arg[1], i) /\ ~Truth(arg[1], j)
    /\ \E i, j \in LaneIds : Truth(out, i) /\ ~Truth(out, j)

(***************************************************************************)
(* batch<std::complex<T>>: a pair of real batches of float or double.      *)
(* A lane of a real batch is an integer small enough for the arithmetic on *)
(* it to be exact in T, or NaN.                                            *)
(***************************************************************************)
FloatTypes == {[signed |-> TRUE, size |-> 4], [signed |-> TRUE, size |-> 8]}
\* the lane that is not a number: a value outside the range of the integer lanes
NaN == -Pow2(30)

\* the arithmetic of one lane of a real batch
float_op(f, x, y) ==
    IF x = NaN \/ y = NaN THEN NaN
    ELSE CASE f = "+" -> x + y
           [] f = "-" -> x - y
           [] OTHER -> x * y

\* batch<T> operator+, operator-, operator* on real batches
real_add(a, b) == [i \in DOMAIN a |-> float_op("+", a[i], b[i])]
real_sub(a, b) == [i \in DOMAIN a |-> float_op("-", a[i], b[i])]
real_mul(a, b) == [i \in DOMAIN a |-> float_op("*", a[i], b[i])]

\* operator*= storing the new real part before the imaginary part is computed
complex_imul_in_place(heap, s, o) ==
    LET h1 == [heap EXCEPT ![s].real =
                   real_sub(real_mul(heap[s].real, heap[o].real),
                            real_mul(heap[s].imag, heap[o].imag))]
    IN [h1 EXCEPT ![s].imag =
            real_add(real_mul(h1[s].real, h1[o].imag), real_mul(h1[s].imag, h1[o].real))]

\* batch<std::complex<T>>::operator*=(batch const& other) on the object s of the
\* heap, other being a reference to the object o (s itself in z *= z)
complex_imul(heap, s, o) ==
    LET new_real == real_sub(real_mul(heap[s].real, heap[o].real),
                             real_mul(heap[s].imag, heap[o].imag))
        new_imag == real_add(real_mul(heap[s].real, heap[o].imag),
                             real_mul(heap[s].imag, heap[o].real))
        h1 == [heap EXCEPT ![s].real = new_real]
    IN [h1 EXCEPT ![s].imag = new_imag]

\* real batches: lanes k, k + 1, ...; and one with a negative lane and a NaN lane
RealInputs ==
    {[i \in 1 .. NLanes(T.size) |-> k + i - 1] : k \in {1, 3, 5, 7}}
        \cup {[i \in 1 .. NLanes(T.size) |-> IF i = 3 THEN NaN ELSE i - 2]}
ComplexInputs == [real : RealInputs, imag : RealInputs]

complex_mul_assign ==
    \E z, w \in ComplexInputs, o \in {"z", "w"} :
        LET heap == [x \in {"z", "w"} |-> IF x = "z" THEN z ELSE w]
        IN Apply("complex::operator*=", <<heap, "z", o>>, complex_imul(heap, "z", o))

ComplexInit ==
    /\ LibInit
    /\ T \in FloatTypes
    /\ NDEBUG = FALSE

\* the values a division adds to the lanes: the infinities, and the quotient p / q
\* that is not an integer (q > 1, p / q in lowest terms), rounded to T
Inf == Pow2(29)
RECURSIVE Gcd(_, _)
Gcd(x, y) == IF y = 0 THEN x ELSE Gcd(y, x % y)
Quotient(p, q) ==
    LET g == Gcd(IF p < 0 THEN -p ELSE p, q)
    IN Pow2(24) + ((p \div g) + 1024) * 1024 + (q \div g)

\* kernel::div for batch<float> and batch<double>, one lane
float_div(x, y) ==
    IF x = NaN \/ y = NaN THEN NaN
    ELSE IF y = 0 THEN (IF x = 0 THEN NaN ELSE IF x > 0 THEN Inf ELSE -Inf)
    ELSE LET p == IF y < 0 THEN -x ELSE x
             q == IF y < 0 THEN -y ELSE y
         IN IF p % q = 0 THEN p \div q ELSE Quotient(p, q)

\* batch<T> operator/ on real batches
real_div(a, b) == [i \in DOMAIN a |-> float_div(a[i], b[i])]

\* operator/= reading the components of its operands where they are used
complex_idiv_in_place(heap, s, o) ==
    LET e == real_add(real_mul(heap[o].real, heap[o].real),
                      real_mul(heap[o].imag, heap[o].imag))
        h1 == [heap EXCEPT ![s].real =
                   real_div(real_add(real_mul(heap[o].real, heap[s].real),
                                     real_mul(heap[o].imag, heap[s].imag)), e)]
    IN [h1 EXCEPT ![s].imag =
            real_div(real_sub(real_mul(h1[o].real, h1[s].imag),
                              real_mul(h1[o].imag, h1[s].real)), e)]

\* batch<std::complex<T>>::operator/=(batch const& other) on the object s of the
\* heap, other being a reference to the object o
complex_idiv(heap, s, o) ==
    LET a == heap[s].real
        b == heap[s].imag
        c == heap[o].real
        d == heap[o].imag
        e == real_add(real_mul(c, c), real_mul(d, d))
        h1 == [heap EXCEPT ![s].real = real_div(real_add(real_mul(c, a), real_mul(d, b)), e)]
    IN [h1 EXCEPT ![s].imag = real_div(real_sub(real_mul(c, b), real_mul(d, a)), e)]

complex_div_assign ==
    /\ fn = "none"
    /\ \E z, w \in ComplexInputs, o \in {"z", "w"} :
          LET heap == [x \in {"z", "w"} |-> IF x = "z" THEN z ELSE w]
          IN Apply("complex::operator/=", <<heap, "z", o>>, complex_idiv(heap, "z", o))

(***************************************************************************)
(* The avx2 kernels that interleave and de-interleave complex batches.  A  *)
(* register of floats or doubles is the tuple of its lanes.                *)
(***************************************************************************)
\* _MM_SHUFFLE(z, y, x, w) and the j-th 2-bit selector of an immediate
MM_SHUFFLE(z, y, x, w) == z * 64 + y * 16 + x * 4 + w
Sel(imm, j) == (imm \div Pow2(2 * j)) % 4

mm256_permute4x64_pd(a, imm) == [j \in 1 .. 4 |-> a[Sel(imm, j - 1) + 1]]
mm256_unpacklo_pd(a, b) == <<a[1], b[1], a[3], b[3]>>
mm256_unpackhi_pd(a, b) == <<a[2], b[2], a[4], b[4]>>
mm256_blend_pd(a, b, imm) == [j \in 1 .. 4 |-> IF (imm \div Pow2(j - 1)) % 2 = 1 THEN b[j] ELSE a[j]]
\* in each 128-bit half: two floats selected from a, then two from b
mm256_shuffle_ps(a, b, imm) ==
    [j \in 1 .. 8 |->
        LET half == 4 * ((j - 1) \div 4)
            e == (j - 1) % 4
        IN IF e < 2 THEN a[half + Sel(imm, e) + 1] ELSE b[half + Sel(imm, e) + 1]]
\* the 8 floats of a register read as 4 doubles, and back
mm256_castps_pd(a) == [j \in 1 .. 4 |-> <<a[2 * j - 1], a[2 * j]>>]
mm256_castpd_ps(a) == [j \in 1 .. 8 |-> a[(j + 1) \div 2][2 - (j % 2)]]

complex_low(z) ==
    LET tmp0 == mm256_permute4x64_pd(z.real, MM_SHUFFLE(3, 1, 1, 0))
        tmp1 == mm256_permute4x64_pd(z.imag, MM_SHUFFLE(1, 2, 0, 0))
    IN mm256_blend_pd(tmp0, tmp1, 10)

\* complex_high blending the imaginary parts into the even lanes
complex_high_even_blend(z) ==
    LET tmp0 == mm256_permute4x64_pd(z.real, MM_SHUFFLE(3, 3, 1, 2))
        tmp1 == mm256_permute4x64_pd(z.imag, MM_SHUFFLE(3, 2, 2, 0))
    IN mm256_blend_pd(tmp0, tmp1, 5)

complex_high(z) ==
    LET tmp0 == mm256_permute4x64_pd(z.real, MM_SHUFFLE(3, 3, 1, 2))
        tmp1 == mm256_permute4x64_pd(z.imag, MM_SHUFFLE(3, 2, 2, 0))
    IN mm256_blend_pd(tmp0, tmp1, 10)

\* load_complex for batch<float> and for batch<double>
load_complex_float(hi, lo) ==
    [real |-> mm256_castpd_ps(mm256_permute4x64_pd(
                  mm256_castps_pd(mm256_shuffle_ps(hi, lo, MM_SHUFFLE(2, 0, 2, 0))),
                  MM_SHUFFLE(3, 1, 2, 0))),
     imag |-> mm256_castpd_ps(mm256_permute4x64_pd(
                  mm256_castps_pd(mm256_shuffle_ps(hi, lo, MM_SHUFFLE(3, 1, 3, 1))),
                  MM_SHUFFLE(3, 1, 2, 0)))]
load_complex_double(hi, lo) ==
    [real |-> mm256_permute4x64_pd(mm256_unpacklo_pd(hi, lo), MM_SHUFFLE(3, 1, 2, 0)),
     imag |-> mm256_permute4x64_pd(mm256_unpackhi_pd(hi, lo), MM_SHUFFLE(3, 1, 2, 0))]
load_complex(Ty, hi, lo) ==
    IF Ty.size = 4 THEN load_complex_float(hi, lo) ELSE load_complex_double(hi, lo)

\* 2 * size values in memory order, all different
InterleavedMemory == {[j \in 1 .. 2 * NLanes(T.size) |-> base + 3 * j] : base \in {0, 100}}

\* two registers are loaded from consecutive memory and de-interleaved
complex_load ==
    /\ fn = "none"
    /\ \E m \in InterleavedMemory :
          LET first == [j \in 1 .. NLanes(T.size) |-> m[j]]
              second == [j \in 1 .. NLanes(T.size) |-> m[NLanes(T.size) + j]]
          IN Apply("load_complex", <<m, first, second>>, load_complex(T, first, second))

\* a batch<complex<double>> is interleaved into two registers and loaded back
complex_low_high ==
    /\ fn = "none"
    /\ T.size = 8
    /\ \E z \in ComplexInputs :
          Apply("complex_low_high", <<z>>,
                <<complex_low(z), complex_high(z),
                  load_complex(T, complex_low(z), complex_high(z))>>)

\* a constructor from a list of bools that asserts the length like batch's does
batch_bool_initializer_list_asserting ==
    /\ fn = "none"
    /\ \E l \in NLanes(T.size) - MaxExtra .. NLanes(T.size) + MaxExtra, p \in 2 .. 3 :
          LET data == [j \in 1 .. l |-> j % p = 1]
          IN \/ \E g \in BOOLEAN :
                  Apply("batch_bool(initializer_list)", <<data>>,
                        IF assert(batch_init_list_condition(l, NLanes(T.size)))
                        THEN [status |-> "ok",
                              lanes |-> batch_bool_init(T, set_from(data, NLanes(T.size), g))]
                        ELSE [status |-> "assert_failed"])
             \/ /\ l < NLanes(T.size)
                /\ Apply("batch_bool(initializer_list)", <<data>>, [status |-> "fault"])

\* batch_bool(std::initializer_list<bool>) delegates to batch_bool(bool const*,
\* index_sequence<Is...>), which sets lane i from data[i] for i < size, and has an
\* empty body: a read past the end of the list finds anything or faults
batch_bool_initializer_list ==
    /\ fn = "none"
    /\ \E l \in NLanes(T.size) - MaxExtra .. NLanes(T.size) + MaxExtra, p \in 2 .. 3 :
          LET data == [j \in 1 .. l |-> j % p = 1]
          IN \/ \E g \in BOOLEAN :
                  Apply("batch_bool(initializer_list)", <<data>>,
                        [status |-> "ok",
                         lanes |-> batch_bool_init(T, set_from(data, NLanes(T.size), g))])
             \/ /\ l < NLanes(T.size)
                /\ Apply("batch_bool(initializer_list)", <<data>>, [status |-> "fault"])

\* batch<std::complex<T>>(std::initializer_list<value_type>) is
\* *this = load_unaligned(data.begin()): two registers, 2 * size values of T, are
\* read from the start of the list and de-interleaved
complex_initializer_list ==
    /\ fn = "none"
    /\ \E l \in NLanes(T.size) - MaxExtra .. NLanes(T.size) + MaxExtra, base \in {0, 100} :
          LET data == [j \in 1 .. 2 * l |-> base + 3 * j]
          IN \/ \E g \in Garbage :
                  LET m == set_from(data, 2 * NLanes(T.size), g)
                      first == [j \in 1 .. NLanes(T.size) |-> m[j]]
                      second == [j \in 1 .. NLanes(T.size) |-> m[NLanes(T.size) + j]]
                  IN Apply("complex(initializer_list)", <<data>>,
                           [status |-> "ok", lanes |-> load_complex(T, first, second)])
             \/ /\ l < NLanes(T.size)
                /\ Apply("complex(initializer_list)", <<data>>, [status |-> "fault"])

\* COMPLEX-ACTIONS-END
ComplexNext ==
    \/ complex_mul_assign
    \/ complex_div_assign
    \/ complex_load
    \/ complex_low_high
    \/ batch_bool_initializer_list
    \/ complex_initializer_list
    \/ LibReturn

ComplexSpec == ComplexInit /\ [][ComplexNext]_vars

(***************************************************************************)
(* Operators of batch and batch<std::complex<T>> on objects.  A heap maps  *)
(* the names of the objects to their values; a reference is a name, so     *)
(* that self and other may be the same object.                             *)
(***************************************************************************)
UpdateOperators == {"+=", "-=", "*=", "&=", "|=", "^=", "<<=", ">>="}
ComplexUpdateOperators == {"+=", "-=", "*=", "/="}

\* the kernel that batch::operator op=(batch const&) calls
update_kernel(f, Ty, a, b) ==
    CASE f = "+=" -> kernel_value("add", add(Ty, a, b), Ty, a, b)
      [] f = "-=" -> kernel_value("sub", sub(Ty, a, b), Ty, a, b)
      [] f = "*=" -> kernel_value("mul", mul(Ty, a, b), Ty, a, b)
      [] f = "&=" -> kernel_value("bitwise_and", bitwise_and(Ty, a, b), Ty, a, b)
      [] f = "|=" -> kernel_value("bitwise_or", bitwise_or(Ty, a, b), Ty, a, b)
      [] f = "^=" -> kernel_value("bitwise_xor", bitwise_xor(Ty, a, b), Ty, a, b)
      [] f = "<<=" -> kernel_value("bitwise_lshift_batch", bitwise_lshift_batch(Ty, a, b), Ty, a, b)
      [] OTHER -> kernel_value("bitwise_rshift_batch", bitwise_rshift_batch(Ty, a, b), Ty, a, b)

\* batch::operator op=(batch const& other) on the object s, other being a reference
\* to the object o: *this = kernel::op<A>(*this, other, A {})
update_operator(f, Ty, heap, s, o) ==
    [heap EXCEPT ![s] = update_kernel(f, Ty, heap[s], heap[o])]

\* a temporary x of value v is constructed; it is destroyed
WithObject(heap, x, v) == [y \in DOMAIN heap \cup {x} |-> IF y = x THEN v ELSE heap[y]]
WithoutObject(heap, x) == [y \in DOMAIN heap \ {x} |-> heap[y]]

\* a binary operator that updates its left operand and returns it
friend_operator_in_place(f, Ty, heap, s, o) ==
    LET h == update_operator(f, Ty, heap, s, o)
    IN [heap |-> h, ret |-> h[s]]

\* friend batch operator op(batch const& self, batch const& other):
\* return batch(self) op= other
friend_operator(f, Ty, heap, s, o) ==
    LET h == update_operator(f, Ty, WithObject(heap, "tmp", heap[s]), "tmp", o)
    IN [heap |-> WithoutObject(h, "tmp"), ret |-> h["tmp"]]

\* batch::operator++(int) (f is "+=") and batch::operator--(int) (f is "-="):
\* batch copy(*this); operator op=(1); return copy, the 1 converting to batch(T(1))
post_operator(f, Ty, heap, s) ==
    LET copy == heap[s]
        one == batch_scalar(Ty, WNat(1, Ty.size))
        h == update_operator(f, Ty, WithObject(heap, "one", one), s, "one")
    IN [heap |-> WithoutObject(h, "one"), ret |-> copy]

\* batch<std::complex<T>>::operator+= and operator-=: the real parts, then the
\* imaginary parts
complex_iadd(heap, s, o) ==
    LET h1 == [heap EXCEPT ![s].real = real_add(heap[s].real, heap[o].real)]
    IN [h1 EXCEPT ![s].imag = real_add(h1[s].imag, h1[o].imag)]
complex_isub(heap, s, o) ==
    LET h1 == [heap EXCEPT ![s].real = real_sub(heap[s].real, heap[o].real)]
    IN [h1 EXCEPT ![s].imag = real_sub(h1[s].imag, h1[o].imag)]

complex_update_operator(f, heap, s, o) ==
    CASE f = "+=" -> complex_iadd(heap, s, o)
      [] f = "-=" -> complex_isub(heap, s, o)
      [] f = "*=" -> complex_imul(heap, s, o)
      [] OTHER -> complex_idiv(heap, s, o)

\* batch<std::complex<T>>::batch(T val): m_real(val), m_imag(0)
complex_scalar(Ty, val) ==
    [real |-> [i \in 1 .. NLanes(Ty.size) |-> val], imag |-> [i \in 1 .. NLanes(Ty.size) |-> 0]]

\* the friend operators +, -, *, / of batch<std::complex<T>>
complex_friend_operator(f, heap, s, o) ==
    LET h == complex_update_operator(f, WithObject(heap, "tmp", heap[s]), "tmp", o)
    IN [heap |-> WithoutObject(h, "tmp"), ret |-> h["tmp"]]

\* operator++(int) and operator--(int) of batch<std::complex<T>>
complex_post_operator(f, Ty, heap, s) ==
    LET copy == heap[s]
        h == complex_update_operator(f, WithObject(heap, "one", complex_scalar(Ty, 1)), s, "one")
    IN [heap |-> WithoutObject(h, "one"), ret |-> copy]

\* batches of small lanes, and the batch of all ones
SmallBatch(seed) ==
    FromLanes([i \in 0 .. NLanes(T.size) - 1 |-> WNat(seed + (i % 3), T.size)], T.size, RegBytes)
OnesReg == [k \in 0 .. RegBytes - 1 |-> 255]
Heaps == {[x \in {"a", "b"} |-> IF x = "a" THEN SmallBatch(seed) ELSE SmallBatch(2)] : seed \in {1, 5}}
        \cup {[x \in {"a", "b"} |-> IF x = "a" THEN OnesReg ELSE SmallBatch(2)]}
ComplexHeaps ==
    {[x \in {"a", "b"} |-> IF x = "a" THEN z
                           ELSE [real |-> [i \in 1 .. NLanes(T.size) |-> i],
                                 imag |-> [i \in 1 .. NLanes(T.size) |-> 2 + i]]] :
        z \in ComplexInputs}

batch_friend_operator ==
    /\ fn = "none"
    /\ \E f \in UpdateOperators, heap \in Heaps, s, o \in {"a", "b"} :
          Apply("operator", <<f, heap, s, o>>, friend_operator(f, T, heap, s, o))

batch_update_operator ==
    /\ fn = "none"
    /\ \E f \in UpdateOperators, heap \in Heaps, s, o \in {"a", "b"} :
          Apply("operator=", <<f, heap, s, o>>,
                [heap |-> update_operator(f, T, heap, s, o), ret |-> s])

batch_post_operator ==
    /\ fn = "none"
    /\ \E f \in {"+=", "-="}, heap \in Heaps, s \in {"a", "b"} :
          Apply("operator(int)", <<f, heap, s>>, post_operator(f, T, heap, s))

complex_batch_friend_operator ==
    /\ fn = "none"
    /\ T \in FloatTypes
    /\ \E f \in ComplexUpdateOperators, heap \in ComplexHeaps, s, o \in {"a", "b"} :
          Apply("complex::operator", <<f, heap, s, o>>, complex_friend_operator(f, heap, s, o))

complex_batch_update_operator ==
    /\ fn = "none"
    /\ T \in FloatTypes
    /\ \E f \in ComplexUpdateOperators, heap \in ComplexHeaps, s, o \in {"a", "b"} :
          Apply("complex::operator=", <<f, heap, s, o>>,
                [heap |-> complex_update_operator(f, heap, s, o), ret |-> s])

complex_batch_post_operator ==
    /\ fn = "none"
    /\ T \in FloatTypes
    /\ \E f \in {"+=", "-="}, heap \in ComplexHeaps, s \in {"a", "b"} :
          Apply("complex::operator(int)", <<f, heap, s>>, complex_post_operator(f, T, heap, s))

OperatorNext ==
    \/ batch_friend_operator
    \/ batch_update_operator
    \/ batch_post_operator
    \/ complex_batch_friend_operator
    \/ complex_batch_update_operator
    \/ complex_batch_post_operator
    \/ LibReturn

OperatorSpec == LibInit /\ [][OperatorNext]_vars

\* a * c - b * d and a * d + b * c on lanes
ProductReal(a, b, c, d) == float_op("-", float_op("*", a, c), float_op("*", b, d))
ProductImag(a, b, c, d) == float_op("+", float_op("*", a, d), float_op("*", b, c))

\* C14: after z *= w every lane of z is (a*c - b*d, a*d + b*c) of the values z and w
\* had before the call, also when w is z itself; w is unchanged unless it is z; and
\* lanes (1+3i, 2+4i) times (5+7i, 6+8i) give (-16+22i, -20+40i)
C14_ComplexProduct ==
    fn = "complex::operator*=" =>
        LET before == arg[1]
            z == before[arg[2]]
            w == before[arg[3]]
        IN /\ \A i \in 1 .. NLanes(T.size) :
                  /\ out["z"].real[i] = ProductReal(z.real[i], z.imag[i], w.real[i], w.imag[i])
                  /\ out["z"].imag[i] = ProductImag(z.real[i], z.imag[i], w.real[i], w.imag[i])
           /\ arg[3] = "w" => out["w"] = before["w"]
           /\ (/\ z.real[1] = 1 /\ z.real[2] = 2 /\ z.imag[1] = 3 /\ z.imag[2] = 4
               /\ w.real[1] = 5 /\ w.real[2] = 6 /\ w.imag[1] = 7 /\ w.imag[2] = 8)
              => /\ out["z"].real[1] = -16 /\ out["z"].real[2] = -20
                 /\ out["z"].imag[1] = 22 /\ out["z"].imag[2] = 40

\* z *= z with z = (1+3i, 2+4i, ...) has been computed: the square (-8+6i, -12+16i)
C14_Witness ==
    /\ fn = "complex::operator*="
    /\ arg[3] = "z"
    /\ arg[1]["z"].real[1] = 1 /\ arg[1]["z"].imag[1] = 3
    /\ out["z"].real[1] = -8 /\ out["z"].imag[1] = 6
    /\ out["z"].real[2] = -12 /\ out["z"].imag[2] = 16

\* the number a word of n bytes denotes, as a sign and a magnitude of SizeT bytes
Value(signed, a, w) ==
    IF signed /\ WIsNeg(a, w) THEN <<-1, WResize(WNeg(a, w), w, SizeT)>>
    ELSE <<1, WResize(a, w, SizeT)>>
\* the std::size_t v is a value of the element type
FitsElement(v) ==
    /\ \A j \in T.size .. SizeT - 1 : v[j] = 0
    /\ T.signed => v[T.size - 1] < 128

\* C15 (as stated): lane i of the batch converted from stride_offset(stride) equals
\* stride_offset(stride).get(i) for every stride, lane and element type
C15_Original ==
    fn = "stride_offset" =>
        \A i \in LaneIds :
            Value(T.signed, Lane(out.batch, T.size, i), T.size) = Value(FALSE, out.get[i], SizeT)

\* what the code guarantees: lane i is get(i) truncated to the element type, and
\* hence equals it whenever get(i) is a value of the element type
C15_Amended ==
    fn = "stride_offset" =>
        \A i \in LaneIds :
            /\ Lane(out.batch, T.size, i) = WResize(out.get[i], SizeT, T.size)
            /\ FitsElement(out.get[i]) =>
                  Value(T.signed, Lane(out.batch, T.size, i), T.size)
                      = Value(FALSE, out.get[i], SizeT)

\* a stride of 9 on 1-byte lanes: get(31) is 279, lane 31 holds 23
C15_Witness ==
    /\ fn = "stride_offset"
    /\ T.size = 1
    /\ arg.stride = SizeWord(9, 0)
    /\ out.get[31] = WNat(279, SizeT)
    /\ Lane(out.batch, 1, 31) = WNat(23, 1)

\* C16 (as stated): lane i of the batch_bool converted from first_n_true(n) is true
\* exactly when i < n, as first_n_true(n).get(i), for every n and element type
C16_Original ==
    fn = "first_n_true" =>
        \A i \in LaneIds :
            /\ out.get[i] = WULess(WNat(i, SizeT), arg.n, SizeT)
            /\ (Lane(out.batch, T.size, i) = WOnes(T.size)) = out.get[i]

\* what the code guarantees: every lane is all ones or all zeros, and lane i is
\* true exactly when i < n whenever n is a value of the signed integer type of the
\* element size; otherwise lane i compares i with n truncated to that type
C16_Amended ==
    fn = "first_n_true" =>
        \A i \in LaneIds :
            /\ out.get[i] = WULess(WNat(i, SizeT), arg.n, SizeT)
            /\ Lane(out.batch, T.size, i) \in {WZero(T.size), WOnes(T.size)}
            /\ (/\ \A j \in T.size .. SizeT - 1 : arg.n[j] = 0
                /\ arg.n[T.size - 1] < 128)
               => (Lane(out.batch, T.size, i) = WOnes(T.size)) = out.get[i]
            /\ (Lane(out.batch, T.size, i) = WOnes(T.size))
                   = WSLess(WNat(i, T.size), WResize(arg.n, SizeT, T.size), T.size)

\* n = 200 on 1-byte lanes: get(0) is true and lane 0 is false
C16_Witness ==
    /\ fn = "first_n_true"
    /\ T.size = 1
    /\ arg.n = SizeWord(200, 0)
    /\ out.get[0]
    /\ Lane(out.batch, 1, 0) = WZero(1)

\* C17 (as stated): for every integer batch b and lane i, the unsigned
\* allow_signed_conversion(b).get(i) and lane i of the signed batch converted from
\* allow_signed_conversion(b) denote the same value
C17_Original ==
    fn = "allow_signed_conversion" =>
        \A i \in LaneIds :
            Value(TRUE, Lane(out.batch, T.size, i), T.size) = Value(FALSE, out.get[i], T.size)

\* C17 (amended): get(i) and lane i of the signed batch have the bit pattern of lane
\* i of b, and denote the same value exactly when that lane has its top bit clear,
\* that is, when its value is representable in the signed and the unsigned type
C17_Amended ==
    fn = "allow_signed_conversion" =>
        \A i \in LaneIds :
            /\ out.get[i] = Lane(arg.b, T.size, i)
            /\ Lane(out.batch, T.size, i) = Lane(arg.b, T.size, i)
            /\ (Value(TRUE, Lane(out.batch, T.size, i), T.size)
                    = Value(FALSE, out.get[i], T.size))
               <=> ~WIsNeg(Lane(arg.b, T.size, i), T.size)

\* a batch with lanes 0, -1, -2, ...: get(1) is the largest unsigned value and
\* lane 1 of the signed batch is -1, while get(0) and lane 0 are both 0
C17_Witness ==
    /\ fn = "allow_signed_conversion"
    /\ arg.b = NegRamp(T.size)
    /\ out.get[1] = WOnes(T.size)
    /\ Value(TRUE, Lane(out.batch, T.size, 1), T.size) = <<-1, WNat(1, SizeT)>>
    /\ Value(TRUE, Lane(out.batch, T.size, 0), T.size) = Value(FALSE, out.get[0], T.size)

\* C18: make_batch_constant<B, G>() and make_batch_bool_constant<B, G>() give a
\* constant of exactly B::size values whose get(i) is G::get(i, B::size) and whose
\* conversion to a batch or batch_bool holds that value in lane i
C18_ConstantLanes ==
    /\ fn = "make_batch_constant" =>
          /\ Len(out.Values) = NLanes(T.size)
          /\ \A i \in LaneIds :
                /\ Value(T.signed, out.get[i], T.size)
                       = <<1, WNat(generator_get(arg.G, i, NLanes(T.size)), SizeT)>>
                /\ Lane(out.batch, T.size, i) = out.get[i]
    /\ fn = "make_batch_bool_constant" =>
          /\ Len(out.Values) = NLanes(T.size)
          /\ \A i \in LaneIds :
                /\ out.get[i] = generator_get(arg.G, i, NLanes(T.size))
                /\ Lane(out.batch, T.size, i)
                       = IF out.get[i] THEN WOnes(T.size) ELSE WZero(T.size)

\* the reversed ramp on 1-byte lanes has been made: get(0) is 31, lane 31 holds 0;
\* or the boolean constant with only the last of 4 lanes true
C18_Witness ==
    \/ /\ fn = "make_batch_constant"
       /\ arg.G = "reverse"
       /\ T.size = 1
       /\ out.get[0] = WNat(31, 1)
       /\ Lane(out.batch, 1, 31) = WZero(1)
    \/ /\ fn = "make_batch_bool_constant"
       /\ arg.G = "last"
       /\ T.size = 8
       /\ out.get[3]
       /\ Lane(out.batch, 8, 3) = WOnes(8)
       /\ Lane(out.batch, 8, 0) = WZero(8)

(***************************************************************************)
(* The comparisons of complex batches: their results are batch_bool of the *)
(* real type.                                                              *)
(***************************************************************************)
\* kernel::eq and kernel::neq on real batches: a NaN lane equals nothing
float_eq(Ty, a, b) ==
    FromLanes([i \in 0 .. NLanes(Ty.size) - 1 |->
                  IF a[i + 1] # NaN /\ b[i + 1] # NaN /\ a[i + 1] = b[i + 1]
                  THEN WOnes(Ty.size) ELSE WZero(Ty.size)], Ty.size, RegBytes)
float_neq(Ty, a, b) ==
    FromLanes([i \in 0 .. NLanes(Ty.size) - 1 |->
                  IF a[i + 1] = NaN \/ b[i + 1] = NaN \/ a[i + 1] # b[i + 1]
                  THEN WOnes(Ty.size) ELSE WZero(Ty.size)], Ty.size, RegBytes)

\* batch_bool<float>::operator&& and operator||: the kernels of the parent tier
float_bool_land(Ty, a, b) == avx("bitwise_and", Ty, a, b, 0, <<>>)
float_bool_lor(Ty, a, b) == avx("bitwise_or", Ty, a, b, 0, <<>>)

\* batch<std::complex<T>>::operator==
complex_eq(Ty, z, w) ==
    float_bool_land(Ty, float_eq(Ty, z.real, w.real), float_eq(Ty, z.imag, w.imag))

\* operator!= requiring both parts to differ
complex_neq_both(Ty, z, w) ==
    float_bool_land(Ty, float_neq(Ty, z.real, w.real), float_neq(Ty, z.imag, w.imag))

\* batch<std::complex<T>>::operator!=
complex_neq(Ty, z, w) ==
    float_bool_lor(Ty, float_neq(Ty, z.real, w.real), float_neq(Ty, z.imag, w.imag))

complex_operator_eq ==
    /\ fn = "none"
    /\ T \in FloatTypes
    /\ \E z, w \in ComplexInputs : Apply("complex::operator==", <<z, w>>, complex_eq(T, z, w))

complex_operator_neq ==
    /\ fn = "none"
    /\ T \in FloatTypes
    /\ \E z, w \in ComplexInputs : Apply("complex::operator!=", <<z, w>>, complex_neq(T, z, w))

BoolInit ==
    /\ LibInit
    /\ NDEBUG = FALSE

BoolNext ==
    \/ bool_broadcast
    \/ bool_init_list
    \/ bool_load_aligned
    \/ bool_eq
    \/ bool_gt
    \/ bool_bitwise_and
    \/ bool_bitwise_or
    \/ bool_bitwise_xor
    \/ bool_bitwise_andnot
    \/ bool_bitwise_not
    \/ bool_operator_eq
    \/ bool_operator_neq
    \/ bool_operator_not
    \/ bool_operator_lnot
    \/ bool_operator_land
    \/ bool_operator_lor
    \/ complex_operator_eq
    \/ complex_operator_neq
    \/ LibReturn

BoolSpec == BoolInit /\ [][BoolNext]_vars

\* C19: a != b is !(a == b) in every lane, for two batch_bool with canonical lanes
\* and for two complex batches
C19_NeqIsNotEq ==
    /\ fn = "operator!=" =>
          /\ Canonical(arg[1]) /\ Canonical(arg[2])
          /\ out = batch_bool_lnot(T, batch_bool_eq(T, arg[1], arg[2]))
          /\ \A i \in LaneIds :
                Truth(out, i) = ~Truth(batch_bool_eq(T, arg[1], arg[2]), i)
    /\ fn = "complex::operator!=" =>
          /\ out = batch_bool_lnot(T, complex_eq(T, arg[1], arg[2]))
          /\ \A i \in LaneIds :
                Truth(out, i) = ~Truth(complex_eq(T, arg[1], arg[2]), i)

\* two complex batches with the same real part and another imaginary part have
\* been compared: they differ in every lane
C19_Witness ==
    /\ fn = "complex::operator!="
    /\ arg[1].real = arg[2].real
    /\ arg[1].imag # arg[2].imag
    /\ \A i \in LaneIds : Truth(out, i)

(***************************************************************************)
(* Two threads, each running batch operations on its own batch.  mem is    *)
(* the memory both threads address; tpc is each thread's position and its  *)
(* registers.                                                              *)
(***************************************************************************)
Threads == {1, 2}
MaxOps == 2

\* the objects of thread t: its batch, the operand of its additions, and the
\* buffer of its call of get, which lives on the thread's stack
This(t) == <<"batch", t>>
Operand(t) == <<"other", t>>
\* get keeping its buffer in static storage
get_buffer_static(t) == <<"buffer", 0>>
get_buffer(t) == <<"buffer", t>>
Locations == UNION {{This(t), Operand(t), get_buffer(t)} : t \in Threads}

InitialBatch(t) == IF t = 1 THEN Ramp(T.size) ELSE NegRamp(T.size)
InitialOperand(t) == IF t = 1 THEN RotBatch(0, 1, T.size) ELSE RotBatch(1, 3, T.size)

ThreadInit ==
    /\ T \in Types
    /\ self = ZeroReg
    /\ other = ZeroReg
    /\ n = 0
    /\ cond = ZeroReg
    /\ values = <<>>
    /\ scale = 1
    /\ pc = "idle"
    /\ tier = "avx2"
    /\ kernel = "none"
    /\ path = <<>>
    /\ uses = {}
    /\ res = <<>>
    /\ maskv = <<>>
    /\ NDEBUG = FALSE
    /\ fn = "none"
    /\ arg = <<>>
    /\ out = <<>>
    /\ mem = [l \in Locations |->
                 IF l \in {This(t) : t \in Threads} THEN InitialBatch(l[2])
                 ELSE IF l \in {Operand(t) : t \in Threads} THEN InitialOperand(l[2])
                 ELSE ZeroReg]
    /\ tpc = [t \in Threads |-> [index |-> 0, at |-> "idle", adds |-> 0, tmp |-> ZeroReg,
                                 last |-> "none", ret |-> WZero(T.size)]]

\* batch::store_aligned(dst): the register is written to the memory at dst
store_aligned(m, dst, reg) == [m EXCEPT ![dst] = reg]

\* batch::get(i), first half: alignas(...) T buffer[size]; store_aligned(&buffer[0])
get_store(t) ==
    /\ tpc[t].at = "idle"
    /\ \E i \in {0, NLanes(T.size) - 1} :
           tpc' = [tpc EXCEPT ![t].at = "get_stored", ![t].index = i]
    /\ mem' = store_aligned(mem, get_buffer(t), mem[This(t)])
    /\ UNCHANGED <<kvars, libvars>>

\* batch::get(i), second half: return buffer[i]
get_return(t) ==
    /\ tpc[t].at = "get_stored"
    /\ tpc' = [tpc EXCEPT ![t].at = "idle", ![t].last = "get",
                          ![t].ret = Lane(mem[get_buffer(t)], T.size, tpc[t].index)]
    /\ UNCHANGED <<mem, kvars, libvars>>

\* batch::operator+=(other), first half: kernel::add<A>(*this, other, A {})
add_kernel(t) ==
    /\ tpc[t].at = "idle"
    /\ tpc[t].adds < MaxOps
    /\ LET a == mem[This(t)]
           b == mem[Operand(t)]
       IN tpc' = [tpc EXCEPT ![t].at = "add_computed",
                             ![t].tmp = kernel_value("add", add(T, a, b), T, a, b)]
    /\ UNCHANGED <<mem, kvars, libvars>>

\* batch::operator+=(other), second half: *this = ...; return *this
add_assign(t) ==
    /\ tpc[t].at = "add_computed"
    /\ mem' = [mem EXCEPT ![This(t)] = tpc[t].tmp]
    /\ tpc' = [tpc EXCEPT ![t].at = "idle", ![t].last = "operator+=",
                          ![t].adds = tpc[t].adds + 1]
    /\ UNCHANGED <<kvars, libvars>>

ThreadNext ==
    \E t \in Threads :
        \/ get_store(t)
        \/ get_return(t)
        \/ add_kernel(t)
        \/ add_assign(t)

ThreadSpec == ThreadInit /\ [][ThreadNext]_vars

RECURSIVE Alone(_, _)
\* the batch of thread t after c additions when the thread runs alone
Alone(t, c) ==
    IF c = 0 THEN InitialBatch(t)
    ELSE LET a == Alone(t, c - 1)
         IN kernel_value("add", add(T, a, InitialOperand(t)), T, a, InitialOperand(t))

\* C20: in every interleaving of two threads running get and operator+= on their
\* own batches, each thread's batch, operand, intermediate sum and the value get
\* returns are those of the thread running its operations alone
C20_ThreadsIndependent ==
    \A t \in Threads :
        /\ mem[This(t)] = Alone(t, tpc[t].adds)
        /\ mem[Operand(t)] = InitialOperand(t)
        /\ tpc[t].at = "add_computed" => tpc[t].tmp = Alone(t, tpc[t].adds + 1)
        /\ tpc[t].at = "get_stored" => mem[get_buffer(t)] = Alone(t, tpc[t].adds)
        /\ (tpc[t].at = "idle" /\ tpc[t].last = "get") =>
              tpc[t].ret = Lane(Alone(t, tpc[t].adds), T.size, tpc[t].index)

\* thread 1 is between the store and the read of get after all its additions while
\* thread 2, which has returned from a get, is in the middle of an addition
C20_Witness ==
    /\ tpc[1].at = "get_stored"
    /\ tpc[1].adds = MaxOps
    /\ tpc[1].index = NLanes(T.size) - 1
    /\ tpc[2].at = "add_computed"
    /\ tpc[2].last = "get"
    /\ tpc[2].adds >= 1
    /\ mem[get_buffer(1)] # mem[This(2)]

\* the register x with the other byte of the pair of byte i replaced by v
WithNeighbour(x, i, v) ==
    [k \in 0 .. RegBytes - 1 |-> IF k = (IF i % 2 = 0 THEN i + 1 ELSE i - 1) THEN v ELSE x[k]]

\* C21: the right shift of signed 1-byte lanes synthesized at avx2, by n in 0..7,
\* gives floor(x / 2^n) in the low and in the high byte of every pair, whatever the
\* other byte of the pair holds
C21_ByteShift ==
    (/\ pc = "done" /\ kernel = "bitwise_rshift" /\ T.signed /\ T.size = 1
     /\ path = <<<<"avx2", "bitwise_rshift">>>>) =>
        \A i \in LaneIds :
            /\ IsFloorDiv(Bits(SelfLane(i), 1), Bits(ResLane(i), 1), n, TRUE)
            /\ \A v \in {0, 127, 128, 255} :
                   Lane(bitwise_rshift(T, WithNeighbour(self, i, v), n).val, 1, i) = ResLane(i)

\* a pair with a negative low byte and a non-negative high byte, and a pair the other
\* way round, have been shifted by 7
C21_Witness ==
    /\ pc = "done" /\ kernel = "bitwise_rshift" /\ T.signed /\ T.size = 1
    /\ path = <<<<"avx2", "bitwise_rshift">>>>
    /\ n = 7
    /\ \E i \in LaneIds :
          /\ i % 2 = 0 /\ WIsNeg(SelfLane(i), 1) /\ ~WIsNeg(SelfLane(i + 1), 1)
          /\ ResLane(i) = WOnes(1) /\ ResLane(i + 1) = WZero(1)
    /\ \E i \in LaneIds :
          /\ i % 2 = 0 /\ ~WIsNeg(SelfLane(i), 1) /\ WIsNeg(SelfLane(i + 1), 1)
          /\ ResLane(i) = WZero(1) /\ ResLane(i + 1) = WOnes(1)

\* the largest of 1, 2, 4, 8 that divides r
LargestLegalDivisor(r) ==
    CHOOSE d \in {1, 2, 4, 8} : r % d = 0 /\ \A e \in {1, 2, 4, 8} : r % e = 0 => e <= d

\* C22: the gather passes to the instruction the largest of 1, 2, 4, 8 that divides
\* the required scale, multiplies the offsets by the required scale divided by it,
\* and passes the offsets unchanged when that multiplier is 1
C22_LargestDivisor ==
    (pc = "done" /\ kernel = "gather") =>
        LET d == LargestLegalDivisor(scale)
            m == scale \div d
        IN /\ res.scale = d
           /\ prescaler_prescale(scale, GatherScales) = m
           /\ m = 1 => res.offset = self
           /\ \A i \in LaneIds :
                 Lane(res.offset, T.size, i) = WMulLo(SelfLane(i), WNat(m, T.size), T.size)

\* scale 6 has been split into the hardware scale 2 and tripled offsets, which are not
\* the offsets passed in
C22_Witness ==
    /\ pc = "done" /\ kernel = "gather"
    /\ scale = 6
    /\ res.scale = 2
    /\ res.offset # self
    /\ \E i \in LaneIds : SelfLane(i) # WZero(T.size)

\* C30: a gather is never rejected by the static assertion of the prescaler, whatever
\* the required scale; for the required scale 0 the instruction gets scale 8 and
\* offsets multiplied by 0, so every lane is read at mem itself
C30_NeverRejected ==
    /\ kernel = "gather" => pc # "rejected"
    /\ (pc = "done" /\ kernel = "gather") => prescaler_assert(scale, GatherScales)
    /\ (pc = "done" /\ kernel = "gather" /\ scale = 0) =>
          /\ res.scale = 8
          /\ prescaler_prescale(scale, GatherScales) = 0
          /\ res.offset = ZeroReg
          /\ \A i \in LaneIds : res.disp[i] = WZero(8)

\* a gather with required scale 0 and offsets that are not all zero has been issued
C30_Witness ==
    /\ pc = "done" /\ kernel = "gather"
    /\ scale = 0
    /\ self # ZeroReg
    /\ res.offset = ZeroReg

\* a lane holds an integer: not NaN, not an infinity, not a rounded quotient
IsExact(x) == x > -Pow2(24) /\ x < Pow2(24)

\* C23: after z /= w every lane of z is ((c*a + d*b) / (c*c + d*d),
\* (c*b - d*a) / (c*c + d*d)) of the values z = a + bi and w = c + di had before
\* the call, also when w is z itself; a lane with c = d = 0 is divided by zero like any
\* other; and where both divisions are exact the quotient times w is the old z
C23_ComplexQuotient ==
    fn = "complex::operator/=" =>
        LET before == arg[1]
            z == before[arg[2]]
            w == before[arg[3]]
        IN \A i \in 1 .. NLanes(T.size) :
              LET a == z.real[i]
                  b == z.imag[i]
                  c == w.real[i]
                  d == w.imag[i]
                  e == float_op("+", float_op("*", c, c), float_op("*", d, d))
                  qr == out["z"].real[i]
                  qi == out["z"].imag[i]
              IN /\ qr = float_div(float_op("+", float_op("*", c, a), float_op("*", d, b)), e)
                 /\ qi = float_div(float_op("-", float_op("*", c, b), float_op("*", d, a)), e)
                 /\ (c = 0 /\ d = 0 /\ a # NaN /\ b # NaN) => (qr = NaN /\ qi = NaN)
                 /\ (IsExact(qr) /\ IsExact(qi)) =>
                       /\ ProductReal(qr, qi, c, d) = a
                       /\ ProductImag(qr, qi, c, d) = b

\* (3 + 5i) / (1 + i) = 4 + i in lane 1, in a batch that also has a lane divided by
\* 0 + 0i
C23_Witness ==
    /\ fn = "complex::operator/="
    /\ arg[3] = "w"
    /\ arg[1]["z"].real[1] = 3 /\ arg[1]["z"].imag[1] = 5
    /\ arg[1]["w"].real[1] = 1 /\ arg[1]["w"].imag[1] = 1
    /\ out["z"].real[1] = 4 /\ out["z"].imag[1] = 1

\* C24: load_complex of two registers holding re0, im0, re1, im1, ... in memory order
\* gives real lane i = re_i and imag lane i = im_i, for float and double; for a
\* batch<complex<double>> z, complex_low(z) is [re0, im0, re1, im1], complex_high(z)
\* is [re2, im2, re3, im3], and load_complex of the two is z
C24_Interleave ==
    /\ fn = "load_complex" =>
          \A i \in 1 .. NLanes(T.size) :
              /\ out.real[i] = arg[1][2 * i - 1]
              /\ out.imag[i] = arg[1][2 * i]
    /\ fn = "complex_low_high" =>
          /\ out[1] = <<arg[1].real[1], arg[1].imag[1], arg[1].real[2], arg[1].imag[2]>>
          /\ out[2] = <<arg[1].real[3], arg[1].imag[3], arg[1].real[4], arg[1].imag[4]>>
          /\ out[3] = arg[1]

\* 16 floats have been de-interleaved: real lane 5 is the ninth value in memory, the
\* first of the second register
C24_Witness ==
    /\ fn = "load_complex"
    /\ T.size = 4
    /\ arg[1][9] = arg[3][1]
    /\ out.real[5] = arg[3][1]
    /\ out.imag[4] = arg[2][8]
    /\ out.real[5] # out.imag[5]

\* C25: an assertion failure of batch(std::initializer_list<T>) is reported only by
\* the step after the delegated constructor has read lanes 0..size-1; for a shorter
\* list the lanes past its end have then already been read
C25_AssertAfterRead ==
    [][(fn' = "batch_init_list" /\ out'.status = "assert_failed") =>
          /\ fn = "batch_init_list"
          /\ out.status = "constructed"
          /\ Len(out.lanes) = NLanes(T.size)
          /\ \A i \in 1 .. NLanes(T.size) :
                IF i <= Len(arg.data) THEN out.lanes[i] = arg.data[i]
                ELSE out.lanes[i] \in Garbage]_vars

\* with assertions enabled, a list one element too short has been read past its end
\* and the assertion has then failed
C25_Witness ==
    /\ fn = "batch_init_list"
    /\ Len(arg.data) = NLanes(T.size) - 1
    /\ out.status = "assert_failed"

\* C26: batch_bool(std::initializer_list<bool>) and the initializer-list constructor
\* of a complex batch never report the length of the list, also with assertions
\* enabled: lane i is element i of the list for every i below size that the list
\* has, a longer list always gives a batch of its first size elements, and a
\* shorter list is read past its end
C26_NoLengthCheck ==
    /\ fn = "batch_bool(initializer_list)" =>
          /\ ~NDEBUG
          /\ out.status \in {"ok", "fault"}
          /\ out.status = "fault" => Len(arg[1]) < NLanes(T.size)
          /\ out.status = "ok" =>
                \A i \in 1 .. NLanes(T.size) :
                    i <= Len(arg[1]) => Truth(out.lanes, i - 1) = arg[1][i]
    /\ fn = "complex(initializer_list)" =>
          /\ ~NDEBUG
          /\ out.status \in {"ok", "fault"}
          /\ out.status = "fault" => Len(arg[1]) < 2 * NLanes(T.size)
          /\ out.status = "ok" =>
                \A i \in 1 .. NLanes(T.size) :
                    2 * i <= Len(arg[1]) =>
                        /\ out.lanes.real[i] = arg[1][2 * i - 1]
                        /\ out.lanes.imag[i] = arg[1][2 * i]

\* a list of size + 1 bools whose last element is true has given a batch_bool, with
\* assertions enabled
C26_Witness ==
    /\ fn = "batch_bool(initializer_list)"
    /\ Len(arg[1]) = NLanes(T.size) + 1
    /\ arg[1][Len(arg[1])]
    /\ out.status = "ok"
    /\ \E i \in LaneIds : Truth(out.lanes, i)

\* a list of size - 1 complex values has given a batch whose last lane was read past
\* the end of the list
C26_WitnessShort ==
    /\ fn = "complex(initializer_list)"
    /\ Len(arg[1]) = 2 * (NLanes(T.size) - 1)
    /\ out.status = "ok"
    /\ out.lanes.imag[NLanes(T.size)] = 255

\* C27: get(i) of a batch_constant or a batch_bool_constant with i >= size returns
\* the value of the last lane, size - 1
C27_LastLane ==
    fn \in {"batch_constant::get", "batch_bool_constant::get"} =>
        /\ arg[2] >= NLanes(T.size)
        /\ Len(arg[1]) = NLanes(T.size)
        /\ out = arg[1][NLanes(T.size)]

\* get(size) on the constant 0, 1, ..., size - 1 has returned size - 1, which is not
\* the value of lane 0
C27_Witness ==
    /\ fn = "batch_constant::get"
    /\ arg[2] = NLanes(T.size)
    /\ arg[1][1] = WZero(T.size)
    /\ out = WNat(NLanes(T.size) - 1, T.size)

\* get(size + 1) on the bool constant that is true in the last lane only is true
C27_WitnessBool ==
    /\ fn = "batch_bool_constant::get"
    /\ arg[2] > NLanes(T.size)
    /\ ~arg[1][1]
    /\ out

\* the bytes of lane i of the mask have the same most significant bit
SameTopBit(m, i) ==
    \A j \in 0 .. T.size - 1 : (m[i * T.size + j] >= 128) = (m[i * T.size] >= 128)

\* C28: the runtime-mask select returns natively, for every element width, the
\* register whose byte k is byte k of a when the most significant bit of byte k of
\* cond is set and byte k of b otherwise; a lane is wholly a[i] or wholly b[i]
\* whenever the bytes of cond lane i have the same top bit
C28_BytewiseSelect ==
    fn = "select(register)" =>
        /\ out.fwd = <<>>
        /\ \A k \in 0 .. RegBytes - 1 :
              out.val[k] = IF arg[1][k] >= 128 THEN arg[2][k] ELSE arg[3][k]
        /\ \A i \in LaneIds :
              SameTopBit(arg[1], i) =>
                  Lane(out.val, T.size, i)
                      = IF arg[1][i * T.size] >= 128 THEN Lane(arg[2], T.size, i)
                        ELSE Lane(arg[3], T.size, i)

\* a mask whose 4-byte lanes are neither all ones nor all zeros has given a lane
\* that is neither a[i] nor b[i]
C28_Witness ==
    /\ fn = "select(register)"
    /\ T.size = 4
    /\ Lane(arg[1], 4, 0) \notin {WOnes(4), WZero(4)}
    /\ ~SameTopBit(arg[1], 0)
    /\ Lane(out.val, 4, 0) \notin {Lane(arg[2], 4, 0), Lane(arg[3], 4, 0)}

\* every object of the heap h but s has the value it has in g
OnlyChanges(g, h, s) == DOMAIN h = DOMAIN g /\ \A x \in DOMAIN g \ {s} : h[x] = g[x]

C29_WitnessWrap ==
    /\ fn = "operator(int)"
    /\ arg[1] = "+="
    /\ arg[3] = "a"
    /\ out.ret = OnesReg
    /\ out.heap["a"] = ZeroReg

\* z-- on a complex batch has left the imaginary part and lowered the real part
C29_WitnessComplex ==
    /\ fn = "complex::operator(int)"
    /\ arg[1] = "-="
    /\ out.heap[arg[3]].imag = arg[2][arg[3]].imag
    /\ out.heap[arg[3]].real[1] = arg[2][arg[3]].real[1] - 1

=============================================================================
